---- MODULE Spec2Model ----
(***************************************************************************)
(* Model of embed_manuals.py: the text helpers (clean_text, is_heading),   *)
(* the chunker (extract_chunks_with_metadata and its inner flush), the     *)
(* quota file helpers (load_quota, save_quota, quota_remaining) and the    *)
(* quota-gated embed-and-persist run (main), and of the retrieval side's   *)
(* search_manuals of test.py as far as it issues embedding requests.       *)
(*                                                                         *)
(* Text is a sequence of Unicode code points, as a Python str is, so that  *)
(* lengths, regular expressions, substring tests and case folding are      *)
(* computed and not assumed.  Literal text is written Str(<<"a", "b">>).   *)
(* The character classes are those of Python 3.11 (Unicode 14.0.0).        *)
(***************************************************************************)
EXTENDS Integers, Sequences, FiniteSets, TLC

(***************************************************************************)
(* Program constants.                                                      *)
(***************************************************************************)
START_PAGE == 20
MAX_WORDS_PER_CHUNK == 350
MIN_CHUNK_LENGTH == 150
DAILY_QUOTA == 1500
QUOTA_SAFETY_BUFFER == 50

(***************************************************************************)
(* Characters.  Printable lists the characters U+0020..U+005F in order and *)
(* PrintableLow the characters U+0061..U+007E.                             *)
(***************************************************************************)
Printable ==
  << " ", "!", "\"", "#", "$", "%", "&", "'", "(", ")", "*", "+", ",", "-",
     ".", "/", "0", "1", "2", "3", "4", "5", "6", "7", "8", "9", ":", ";",
     "<", "=", ">", "?", "@", "A", "B", "C", "D", "E", "F", "G", "H", "I",
     "J", "K", "L", "M", "N", "O", "P", "Q", "R", "S", "T", "U", "V", "W",
     "X", "Y", "Z", "[", "\\", "]", "^", "_" >>

PrintableLow ==
  << "a", "b", "c", "d", "e", "f", "g", "h", "i", "j", "k", "l", "m", "n",
     "o", "p", "q", "r", "s", "t", "u", "v", "w", "x", "y", "z", "{", "|",
     "}", "~" >>

\* ord(c) of a character written as a one-character string
Ord(c) ==
  CASE c = "\n" -> 10
    [] c = "\t" -> 9
    [] \E i \in 1..Len(Printable) : Printable[i] = c ->
         31 + (CHOOSE i \in 1..Len(Printable) : Printable[i] = c)
    [] OTHER -> 96 + (CHOOSE i \in 1..Len(PrintableLow) : PrintableLow[i] = c)

\* the str whose characters are written s
Str(s) == SubSeq([i \in 1..Len(s) |-> Ord(s[i])], 1, Len(s))

IMPORTANT_KEYWORDS ==
  { Str(<<"e","r","r","o","r">>), Str(<<"a","l","a","r","m">>),
    Str(<<"f","a","u","l","t">>),
    Str(<<"p","a","r","a","m","e","t","e","r">>), Str(<<"a","x","i","s">>),
    Str(<<"r","e","s","e","t">>), Str(<<"h","o","m","i","n","g">>),
    Str(<<"s","p","e","e","d">>), Str(<<"m","o","t","o","r">>),
    Str(<<"l","i","m","i","t">>), Str(<<"g","a","i","n">>),
    Str(<<"c","a","l","i","b","r","a","t","i","o","n">>),
    Str(<<"w","a","r","n","i","n","g">>), Str(<<"f","a","i","l","u","r","e">>),
    Str(<<"o","v","e","r","l","o","a","d">>), Str(<<"e","n","c","o","d","e","r">>) }

UNKNOWN_SECTION ==
  Str(<<"U","n","k","n","o","w","n"," ","S","e","c","t","i","o","n">>)

NUL == 0         \* "\x00"
NL == 10         \* "\n"
SP == 32         \* " "
DROP == -1       \* marks a character removed by a substitution; no character

(***************************************************************************)
(* Character classes of Python's re (str patterns, no re.ASCII) and str.   *)
(***************************************************************************)
\* \s of a str pattern, str.isspace(): the characters str.strip() and
\* str.split() take for whitespace
SpaceChars ==
  { 9, 10, 11, 12, 13, 28, 29, 30, 31, 32, 133, 160, 5760, 8192, 8193, 8194,
    8195, 8196, 8197, 8198, 8199, 8200, 8201, 8202, 8232, 8233, 8239, 8287,
    12288 }

\* the digit zero of each decimal digit block (category Nd); the digits
\* one to nine follow it
DigitZeros ==
  { 48, 1632, 1776, 1984, 2406, 2534, 2662, 2790, 2918, 3046, 3174, 3302,
    3430, 3558, 3664, 3792, 3872, 4160, 4240, 6112, 6160, 6470, 6608, 6784,
    6800, 6992, 7088, 7232, 7248, 42528, 43216, 43264, 43472, 43504, 43600,
    44016, 65296, 66720, 68912, 69734, 69872, 69942, 70096, 70384, 70736,
    70864, 71248, 71360, 71472, 71904, 72016, 72784, 73040, 73120, 92768,
    92864, 93008, 120782, 120792, 120802, 120812, 120822, 123200, 123632,
    125264, 130032 }

\* \w of a str pattern: the alphanumeric characters and the underscore,
\* as ranges <<first, last>>
WordRanges ==
  { <<48,57>>, <<65,90>>, <<95,95>>, <<97,122>>, <<170,170>>, <<178,179>>,
    <<181,181>>, <<185,186>>, <<188,190>>, <<192,214>>, <<216,246>>,
    <<248,705>>, <<710,721>>, <<736,740>>, <<748,748>>, <<750,750>>,
    <<880,884>>, <<886,887>>, <<890,893>>, <<895,895>>, <<902,902>>,
    <<904,906>>, <<908,908>>, <<910,929>>, <<931,1013>>, <<1015,1153>>,
    <<1162,1327>>, <<1329,1366>>, <<1369,1369>>, <<1376,1416>>, <<1488,1514>>,
    <<1519,1522>>, <<1568,1610>>, <<1632,1641>>, <<1646,1647>>, <<1649,1747>>,
    <<1749,1749>>, <<1765,1766>>, <<1774,1788>>, <<1791,1791>>, <<1808,1808>>,
    <<1810,1839>>, <<1869,1957>>, <<1969,1969>>, <<1984,2026>>, <<2036,2037>>,
    <<2042,2042>>, <<2048,2069>>, <<2074,2074>>, <<2084,2084>>, <<2088,2088>>,
    <<2112,2136>>, <<2144,2154>>, <<2160,2183>>, <<2185,2190>>, <<2208,2249>>,
    <<2308,2361>>, <<2365,2365>>, <<2384,2384>>, <<2392,2401>>, <<2406,2415>>,
    <<2417,2432>>, <<2437,2444>>, <<2447,2448>>, <<2451,2472>>, <<2474,2480>>,
    <<2482,2482>>, <<2486,2489>>, <<2493,2493>>, <<2510,2510>>, <<2524,2525>>,
    <<2527,2529>>, <<2534,2545>>, <<2548,2553>>, <<2556,2556>>, <<2565,2570>>,
    <<2575,2576>>, <<2579,2600>>, <<2602,2608>>, <<2610,2611>>, <<2613,2614>>,
    <<2616,2617>>, <<2649,2652>>, <<2654,2654>>, <<2662,2671>>, <<2674,2676>>,
    <<2693,2701>>, <<2703,2705>>, <<2707,2728>>, <<2730,2736>>, <<2738,2739>>,
    <<2741,2745>>, <<2749,2749>>, <<2768,2768>>, <<2784,2785>>, <<2790,2799>>,
    <<2809,2809>>, <<2821,2828>>, <<2831,2832>>, <<2835,2856>>, <<2858,2864>>,
    <<2866,2867>>, <<2869,2873>>, <<2877,2877>>, <<2908,2909>>, <<2911,2913>>,
    <<2918,2927>>, <<2929,2935>>, <<2947,2947>>, <<2949,2954>>, <<2958,2960>>,
    <<2962,2965>>, <<2969,2970>>, <<2972,2972>>, <<2974,2975>>, <<2979,2980>>,
    <<2984,2986>>, <<2990,3001>>, <<3024,3024>>, <<3046,3058>>, <<3077,3084>>,
    <<3086,3088>>, <<3090,3112>>, <<3114,3129>>, <<3133,3133>>, <<3160,3162>>,
    <<3165,3165>>, <<3168,3169>>, <<3174,3183>>, <<3192,3198>>, <<3200,3200>>,
    <<3205,3212>>, <<3214,3216>>, <<3218,3240>>, <<3242,3251>>, <<3253,3257>>,
    <<3261,3261>>, <<3293,3294>>, <<3296,3297>>, <<3302,3311>>, <<3313,3314>>,
    <<3332,3340>>, <<3342,3344>>, <<3346,3386>>, <<3389,3389>>, <<3406,3406>>,
    <<3412,3414>>, <<3416,3425>>, <<3430,3448>>, <<3450,3455>>, <<3461,3478>>,
    <<3482,3505>>, <<3507,3515>>, <<3517,3517>>, <<3520,3526>>, <<3558,3567>>,
    <<3585,3632>>, <<3634,3635>>, <<3648,3654>>, <<3664,3673>>, <<3713,3714>>,
    <<3716,3716>>, <<3718,3722>>, <<3724,3747>>, <<3749,3749>>, <<3751,3760>>,
    <<3762,3763>>, <<3773,3773>>, <<3776,3780>>, <<3782,3782>>, <<3792,3801>>,
    <<3804,3807>>, <<3840,3840>>, <<3872,3891>>, <<3904,3911>>, <<3913,3948>>,
    <<3976,3980>>, <<4096,4138>>, <<4159,4169>>, <<4176,4181>>, <<4186,4189>>,
    <<4193,4193>>, <<4197,4198>>, <<4206,4208>>, <<4213,4225>>, <<4238,4238>>,
    <<4240,4249>>, <<4256,4293>>, <<4295,4295>>, <<4301,4301>>, <<4304,4346>>,
    <<4348,4680>>, <<4682,4685>>, <<4688,4694>>, <<4696,4696>>, <<4698,4701>>,
    <<4704,4744>>, <<4746,4749>>, <<4752,4784>>, <<4786,4789>>, <<4792,4798>>,
    <<4800,4800>>, <<4802,4805>>, <<4808,4822>>, <<4824,4880>>, <<4882,4885>>,
    <<4888,4954>>, <<4969,4988>>, <<4992,5007>>, <<5024,5109>>, <<5112,5117>>,
    <<5121,5740>>, <<5743,5759>>, <<5761,5786>>, <<5792,5866>>, <<5870,5880>>,
    <<5888,5905>>, <<5919,5937>>, <<5952,5969>>, <<5984,5996>>, <<5998,6000>>,
    <<6016,6067>>, <<6103,6103>>, <<6108,6108>>, <<6112,6121>>, <<6128,6137>>,
    <<6160,6169>>, <<6176,6264>>, <<6272,6276>>, <<6279,6312>>, <<6314,6314>>,
    <<6320,6389>>, <<6400,6430>>, <<6470,6509>>, <<6512,6516>>, <<6528,6571>>,
    <<6576,6601>>, <<6608,6618>>, <<6656,6678>>, <<6688,6740>>, <<6784,6793>>,
    <<6800,6809>>, <<6823,6823>>, <<6917,6963>>, <<6981,6988>>, <<6992,7001>>,
    <<7043,7072>>, <<7086,7141>>, <<7168,7203>>, <<7232,7241>>, <<7245,7293>>,
    <<7296,7304>>, <<7312,7354>>, <<7357,7359>>, <<7401,7404>>, <<7406,7411>>,
    <<7413,7414>>, <<7418,7418>>, <<7424,7615>>, <<7680,7957>>, <<7960,7965>>,
    <<7968,8005>>, <<8008,8013>>, <<8016,8023>>, <<8025,8025>>, <<8027,8027>>,
    <<8029,8029>>, <<8031,8061>>, <<8064,8116>>, <<8118,8124>>, <<8126,8126>>,
    <<8130,8132>>, <<8134,8140>>, <<8144,8147>>, <<8150,8155>>, <<8160,8172>>,
    <<8178,8180>>, <<8182,8188>>, <<8304,8305>>, <<8308,8313>>, <<8319,8329>>,
    <<8336,8348>>, <<8450,8450>>, <<8455,8455>>, <<8458,8467>>, <<8469,8469>>,
    <<8473,8477>>, <<8484,8484>>, <<8486,8486>>, <<8488,8488>>, <<8490,8493>>,
    <<8495,8505>>, <<8508,8511>>, <<8517,8521>>, <<8526,8526>>, <<8528,8585>>,
    <<9312,9371>>, <<9450,9471>>, <<10102,10131>>, <<11264,11492>>,
    <<11499,11502>>, <<11506,11507>>, <<11517,11517>>, <<11520,11557>>,
    <<11559,11559>>, <<11565,11565>>, <<11568,11623>>, <<11631,11631>>,
    <<11648,11670>>, <<11680,11686>>, <<11688,11694>>, <<11696,11702>>,
    <<11704,11710>>, <<11712,11718>>, <<11720,11726>>, <<11728,11734>>,
    <<11736,11742>>, <<11823,11823>>, <<12293,12295>>, <<12321,12329>>,
    <<12337,12341>>, <<12344,12348>>, <<12353,12438>>, <<12445,12447>>,
    <<12449,12538>>, <<12540,12543>>, <<12549,12591>>, <<12593,12686>>,
    <<12690,12693>>, <<12704,12735>>, <<12784,12799>>, <<12832,12841>>,
    <<12872,12879>>, <<12881,12895>>, <<12928,12937>>, <<12977,12991>>,
    <<13312,19903>>, <<19968,42124>>, <<42192,42237>>, <<42240,42508>>,
    <<42512,42539>>, <<42560,42606>>, <<42623,42653>>, <<42656,42735>>,
    <<42775,42783>>, <<42786,42888>>, <<42891,42954>>, <<42960,42961>>,
    <<42963,42963>>, <<42965,42969>>, <<42994,43009>>, <<43011,43013>>,
    <<43015,43018>>, <<43020,43042>>, <<43056,43061>>, <<43072,43123>>,
    <<43138,43187>>, <<43216,43225>>, <<43250,43255>>, <<43259,43259>>,
    <<43261,43262>>, <<43264,43301>>, <<43312,43334>>, <<43360,43388>>,
    <<43396,43442>>, <<43471,43481>>, <<43488,43492>>, <<43494,43518>>,
    <<43520,43560>>, <<43584,43586>>, <<43588,43595>>, <<43600,43609>>,
    <<43616,43638>>, <<43642,43642>>, <<43646,43695>>, <<43697,43697>>,
    <<43701,43702>>, <<43705,43709>>, <<43712,43712>>, <<43714,43714>>,
    <<43739,43741>>, <<43744,43754>>, <<43762,43764>>, <<43777,43782>>,
    <<43785,43790>>, <<43793,43798>>, <<43808,43814>>, <<43816,43822>>,
    <<43824,43866>>, <<43868,43881>>, <<43888,44002>>, <<44016,44025>>,
    <<44032,55203>>, <<55216,55238>>, <<55243,55291>>, <<63744,64109>>,
    <<64112,64217>>, <<64256,64262>>, <<64275,64279>>, <<64285,64285>>,
    <<64287,64296>>, <<64298,64310>>, <<64312,64316>>, <<64318,64318>>,
    <<64320,64321>>, <<64323,64324>>, <<64326,64433>>, <<64467,64829>>,
    <<64848,64911>>, <<64914,64967>>, <<65008,65019>>, <<65136,65140>>,
    <<65142,65276>>, <<65296,65305>>, <<65313,65338>>, <<65345,65370>>,
    <<65382,65470>>, <<65474,65479>>, <<65482,65487>>, <<65490,65495>>,
    <<65498,65500>>, <<65536,65547>>, <<65549,65574>>, <<65576,65594>>,
    <<65596,65597>>, <<65599,65613>>, <<65616,65629>>, <<65664,65786>>,
    <<65799,65843>>, <<65856,65912>>, <<65930,65931>>, <<66176,66204>>,
    <<66208,66256>>, <<66273,66299>>, <<66304,66339>>, <<66349,66378>>,
    <<66384,66421>>, <<66432,66461>>, <<66464,66499>>, <<66504,66511>>,
    <<66513,66517>>, <<66560,66717>>, <<66720,66729>>, <<66736,66771>>,
    <<66776,66811>>, <<66816,66855>>, <<66864,66915>>, <<66928,66938>>,
    <<66940,66954>>, <<66956,66962>>, <<66964,66965>>, <<66967,66977>>,
    <<66979,66993>>, <<66995,67001>>, <<67003,67004>>, <<67072,67382>>,
    <<67392,67413>>, <<67424,67431>>, <<67456,67461>>, <<67463,67504>>,
    <<67506,67514>>, <<67584,67589>>, <<67592,67592>>, <<67594,67637>>,
    <<67639,67640>>, <<67644,67644>>, <<67647,67669>>, <<67672,67702>>,
    <<67705,67742>>, <<67751,67759>>, <<67808,67826>>, <<67828,67829>>,
    <<67835,67867>>, <<67872,67897>>, <<67968,68023>>, <<68028,68047>>,
    <<68050,68096>>, <<68112,68115>>, <<68117,68119>>, <<68121,68149>>,
    <<68160,68168>>, <<68192,68222>>, <<68224,68255>>, <<68288,68295>>,
    <<68297,68324>>, <<68331,68335>>, <<68352,68405>>, <<68416,68437>>,
    <<68440,68466>>, <<68472,68497>>, <<68521,68527>>, <<68608,68680>>,
    <<68736,68786>>, <<68800,68850>>, <<68858,68899>>, <<68912,68921>>,
    <<69216,69246>>, <<69248,69289>>, <<69296,69297>>, <<69376,69415>>,
    <<69424,69445>>, <<69457,69460>>, <<69488,69505>>, <<69552,69579>>,
    <<69600,69622>>, <<69635,69687>>, <<69714,69743>>, <<69745,69746>>,
    <<69749,69749>>, <<69763,69807>>, <<69840,69864>>, <<69872,69881>>,
    <<69891,69926>>, <<69942,69951>>, <<69956,69956>>, <<69959,69959>>,
    <<69968,70002>>, <<70006,70006>>, <<70019,70066>>, <<70081,70084>>,
    <<70096,70106>>, <<70108,70108>>, <<70113,70132>>, <<70144,70161>>,
    <<70163,70187>>, <<70272,70278>>, <<70280,70280>>, <<70282,70285>>,
    <<70287,70301>>, <<70303,70312>>, <<70320,70366>>, <<70384,70393>>,
    <<70405,70412>>, <<70415,70416>>, <<70419,70440>>, <<70442,70448>>,
    <<70450,70451>>, <<70453,70457>>, <<70461,70461>>, <<70480,70480>>,
    <<70493,70497>>, <<70656,70708>>, <<70727,70730>>, <<70736,70745>>,
    <<70751,70753>>, <<70784,70831>>, <<70852,70853>>, <<70855,70855>>,
    <<70864,70873>>, <<71040,71086>>, <<71128,71131>>, <<71168,71215>>,
    <<71236,71236>>, <<71248,71257>>, <<71296,71338>>, <<71352,71352>>,
    <<71360,71369>>, <<71424,71450>>, <<71472,71483>>, <<71488,71494>>,
    <<71680,71723>>, <<71840,71922>>, <<71935,71942>>, <<71945,71945>>,
    <<71948,71955>>, <<71957,71958>>, <<71960,71983>>, <<71999,71999>>,
    <<72001,72001>>, <<72016,72025>>, <<72096,72103>>, <<72106,72144>>,
    <<72161,72161>>, <<72163,72163>>, <<72192,72192>>, <<72203,72242>>,
    <<72250,72250>>, <<72272,72272>>, <<72284,72329>>, <<72349,72349>>,
    <<72368,72440>>, <<72704,72712>>, <<72714,72750>>, <<72768,72768>>,
    <<72784,72812>>, <<72818,72847>>, <<72960,72966>>, <<72968,72969>>,
    <<72971,73008>>, <<73030,73030>>, <<73040,73049>>, <<73056,73061>>,
    <<73063,73064>>, <<73066,73097>>, <<73112,73112>>, <<73120,73129>>,
    <<73440,73458>>, <<73648,73648>>, <<73664,73684>>, <<73728,74649>>,
    <<74752,74862>>, <<74880,75075>>, <<77712,77808>>, <<77824,78894>>,
    <<82944,83526>>, <<92160,92728>>, <<92736,92766>>, <<92768,92777>>,
    <<92784,92862>>, <<92864,92873>>, <<92880,92909>>, <<92928,92975>>,
    <<92992,92995>>, <<93008,93017>>, <<93019,93025>>, <<93027,93047>>,
    <<93053,93071>>, <<93760,93846>>, <<93952,94026>>, <<94032,94032>>,
    <<94099,94111>>, <<94176,94177>>, <<94179,94179>>, <<94208,100343>>,
    <<100352,101589>>, <<101632,101640>>, <<110576,110579>>,
    <<110581,110587>>, <<110589,110590>>, <<110592,110882>>,
    <<110928,110930>>, <<110948,110951>>, <<110960,111355>>,
    <<113664,113770>>, <<113776,113788>>, <<113792,113800>>,
    <<113808,113817>>, <<119520,119539>>, <<119648,119672>>,
    <<119808,119892>>, <<119894,119964>>, <<119966,119967>>,
    <<119970,119970>>, <<119973,119974>>, <<119977,119980>>,
    <<119982,119993>>, <<119995,119995>>, <<119997,120003>>,
    <<120005,120069>>, <<120071,120074>>, <<120077,120084>>,
    <<120086,120092>>, <<120094,120121>>, <<120123,120126>>,
    <<120128,120132>>, <<120134,120134>>, <<120138,120144>>,
    <<120146,120485>>, <<120488,120512>>, <<120514,120538>>,
    <<120540,120570>>, <<120572,120596>>, <<120598,120628>>,
    <<120630,120654>>, <<120656,120686>>, <<120688,120712>>,
    <<120714,120744>>, <<120746,120770>>, <<120772,120779>>,
    <<120782,120831>>, <<122624,122654>>, <<123136,123180>>,
    <<123191,123197>>, <<123200,123209>>, <<123214,123214>>,
    <<123536,123565>>, <<123584,123627>>, <<123632,123641>>,
    <<124896,124902>>, <<124904,124907>>, <<124909,124910>>,
    <<124912,124926>>, <<124928,125124>>, <<125127,125135>>,
    <<125184,125251>>, <<125259,125259>>, <<125264,125273>>,
    <<126065,126123>>, <<126125,126127>>, <<126129,126132>>,
    <<126209,126253>>, <<126255,126269>>, <<126464,126467>>,
    <<126469,126495>>, <<126497,126498>>, <<126500,126500>>,
    <<126503,126503>>, <<126505,126514>>, <<126516,126519>>,
    <<126521,126521>>, <<126523,126523>>, <<126530,126530>>,
    <<126535,126535>>, <<126537,126537>>, <<126539,126539>>,
    <<126541,126543>>, <<126545,126546>>, <<126548,126548>>,
    <<126551,126551>>, <<126553,126553>>, <<126555,126555>>,
    <<126557,126557>>, <<126559,126559>>, <<126561,126562>>,
    <<126564,126564>>, <<126567,126570>>, <<126572,126578>>,
    <<126580,126583>>, <<126585,126588>>, <<126590,126590>>,
    <<126592,126601>>, <<126603,126619>>, <<126625,126627>>,
    <<126629,126633>>, <<126635,126651>>, <<127232,127244>>,
    <<130032,130041>>, <<131072,173791>>, <<173824,177976>>,
    <<177984,178205>>, <<178208,183969>>, <<183984,191456>>,
    <<194560,195101>>, <<196608,201546>> }

\* the simple lowercase mappings: <<first, last, step, delta>> maps every
\* step-th character c of first..last to c + delta
LowerRanges ==
  { <<65,90,1,32>>, <<192,214,1,32>>, <<216,222,1,32>>, <<256,302,2,1>>,
    <<306,310,2,1>>, <<313,327,2,1>>, <<330,374,2,1>>, <<376,376,1,-121>>,
    <<377,381,2,1>>, <<385,385,1,210>>, <<386,388,2,1>>, <<390,390,1,206>>,
    <<391,391,1,1>>, <<393,394,1,205>>, <<395,395,1,1>>, <<398,398,1,79>>,
    <<399,399,1,202>>, <<400,400,1,203>>, <<401,401,1,1>>, <<403,403,1,205>>,
    <<404,404,1,207>>, <<406,406,1,211>>, <<407,407,1,209>>, <<408,408,1,1>>,
    <<412,412,1,211>>, <<413,413,1,213>>, <<415,415,1,214>>, <<416,420,2,1>>,
    <<422,422,1,218>>, <<423,423,1,1>>, <<425,425,1,218>>, <<428,428,1,1>>,
    <<430,430,1,218>>, <<431,431,1,1>>, <<433,434,1,217>>, <<435,437,2,1>>,
    <<439,439,1,219>>, <<440,440,1,1>>, <<444,444,1,1>>, <<452,452,1,2>>,
    <<453,453,1,1>>, <<455,455,1,2>>, <<456,456,1,1>>, <<458,458,1,2>>,
    <<459,475,2,1>>, <<478,494,2,1>>, <<497,497,1,2>>, <<498,500,2,1>>,
    <<502,502,1,-97>>, <<503,503,1,-56>>, <<504,542,2,1>>, <<544,544,1,-130>>,
    <<546,562,2,1>>, <<570,570,1,10795>>, <<571,571,1,1>>, <<573,573,1,-163>>,
    <<574,574,1,10792>>, <<577,577,1,1>>, <<579,579,1,-195>>,
    <<580,580,1,69>>, <<581,581,1,71>>, <<582,590,2,1>>, <<880,882,2,1>>,
    <<886,886,1,1>>, <<895,895,1,116>>, <<902,902,1,38>>, <<904,906,1,37>>,
    <<908,908,1,64>>, <<910,911,1,63>>, <<913,929,1,32>>, <<931,939,1,32>>,
    <<975,975,1,8>>, <<984,1006,2,1>>, <<1012,1012,1,-60>>, <<1015,1015,1,1>>,
    <<1017,1017,1,-7>>, <<1018,1018,1,1>>, <<1021,1023,1,-130>>,
    <<1024,1039,1,80>>, <<1040,1071,1,32>>, <<1120,1152,2,1>>,
    <<1162,1214,2,1>>, <<1216,1216,1,15>>, <<1217,1229,2,1>>,
    <<1232,1326,2,1>>, <<1329,1366,1,48>>, <<4256,4293,1,7264>>,
    <<4295,4295,1,7264>>, <<4301,4301,1,7264>>, <<5024,5103,1,38864>>,
    <<5104,5109,1,8>>, <<7312,7354,1,-3008>>, <<7357,7359,1,-3008>>,
    <<7680,7828,2,1>>, <<7838,7838,1,-7615>>, <<7840,7934,2,1>>,
    <<7944,7951,1,-8>>, <<7960,7965,1,-8>>, <<7976,7983,1,-8>>,
    <<7992,7999,1,-8>>, <<8008,8013,1,-8>>, <<8025,8031,2,-8>>,
    <<8040,8047,1,-8>>, <<8072,8079,1,-8>>, <<8088,8095,1,-8>>,
    <<8104,8111,1,-8>>, <<8120,8121,1,-8>>, <<8122,8123,1,-74>>,
    <<8124,8124,1,-9>>, <<8136,8139,1,-86>>, <<8140,8140,1,-9>>,
    <<8152,8153,1,-8>>, <<8154,8155,1,-100>>, <<8168,8169,1,-8>>,
    <<8170,8171,1,-112>>, <<8172,8172,1,-7>>, <<8184,8185,1,-128>>,
    <<8186,8187,1,-126>>, <<8188,8188,1,-9>>, <<8486,8486,1,-7517>>,
    <<8490,8490,1,-8383>>, <<8491,8491,1,-8262>>, <<8498,8498,1,28>>,
    <<8544,8559,1,16>>, <<8579,8579,1,1>>, <<9398,9423,1,26>>,
    <<11264,11311,1,48>>, <<11360,11360,1,1>>, <<11362,11362,1,-10743>>,
    <<11363,11363,1,-3814>>, <<11364,11364,1,-10727>>, <<11367,11371,2,1>>,
    <<11373,11373,1,-10780>>, <<11374,11374,1,-10749>>,
    <<11375,11375,1,-10783>>, <<11376,11376,1,-10782>>, <<11378,11378,1,1>>,
    <<11381,11381,1,1>>, <<11390,11391,1,-10815>>, <<11392,11490,2,1>>,
    <<11499,11501,2,1>>, <<11506,11506,1,1>>, <<42560,42604,2,1>>,
    <<42624,42650,2,1>>, <<42786,42798,2,1>>, <<42802,42862,2,1>>,
    <<42873,42875,2,1>>, <<42877,42877,1,-35332>>, <<42878,42886,2,1>>,
    <<42891,42891,1,1>>, <<42893,42893,1,-42280>>, <<42896,42898,2,1>>,
    <<42902,42920,2,1>>, <<42922,42922,1,-42308>>, <<42923,42923,1,-42319>>,
    <<42924,42924,1,-42315>>, <<42925,42925,1,-42305>>,
    <<42926,42926,1,-42308>>, <<42928,42928,1,-42258>>,
    <<42929,42929,1,-42282>>, <<42930,42930,1,-42261>>, <<42931,42931,1,928>>,
    <<42932,42946,2,1>>, <<42948,42948,1,-48>>, <<42949,42949,1,-42307>>,
    <<42950,42950,1,-35384>>, <<42951,42953,2,1>>, <<42960,42960,1,1>>,
    <<42966,42968,2,1>>, <<42997,42997,1,1>>, <<65313,65338,1,32>>,
    <<66560,66599,1,40>>, <<66736,66771,1,40>>, <<66928,66964,2,39>>,
    <<66929,66937,2,39>>, <<66941,66953,2,39>>, <<66957,66961,2,39>>,
    <<66965,66965,1,39>>, <<68736,68786,1,64>>, <<71840,71871,1,32>>,
    <<93760,93791,1,32>>, <<125184,125217,1,34>> }

\* the cased characters that are not case-ignorable
CasedRanges ==
  { <<65,90>>, <<97,122>>, <<170,170>>, <<181,181>>, <<186,186>>, <<192,214>>,
    <<216,246>>, <<248,442>>, <<444,447>>, <<452,659>>, <<661,687>>,
    <<880,883>>, <<886,887>>, <<891,893>>, <<895,895>>, <<902,902>>,
    <<904,906>>, <<908,908>>, <<910,929>>, <<931,1013>>, <<1015,1153>>,
    <<1162,1327>>, <<1329,1366>>, <<1376,1416>>, <<4256,4293>>, <<4295,4295>>,
    <<4301,4301>>, <<4304,4346>>, <<4349,4351>>, <<5024,5109>>, <<5112,5117>>,
    <<7296,7304>>, <<7312,7354>>, <<7357,7359>>, <<7424,7467>>, <<7531,7543>>,
    <<7545,7578>>, <<7680,7957>>, <<7960,7965>>, <<7968,8005>>, <<8008,8013>>,
    <<8016,8023>>, <<8025,8025>>, <<8027,8027>>, <<8029,8029>>, <<8031,8061>>,
    <<8064,8116>>, <<8118,8124>>, <<8126,8126>>, <<8130,8132>>, <<8134,8140>>,
    <<8144,8147>>, <<8150,8155>>, <<8160,8172>>, <<8178,8180>>, <<8182,8188>>,
    <<8450,8450>>, <<8455,8455>>, <<8458,8467>>, <<8469,8469>>, <<8473,8477>>,
    <<8484,8484>>, <<8486,8486>>, <<8488,8488>>, <<8490,8493>>, <<8495,8500>>,
    <<8505,8505>>, <<8508,8511>>, <<8517,8521>>, <<8526,8526>>, <<8544,8575>>,
    <<8579,8580>>, <<9398,9449>>, <<11264,11387>>, <<11390,11492>>,
    <<11499,11502>>, <<11506,11507>>, <<11520,11557>>, <<11559,11559>>,
    <<11565,11565>>, <<42560,42605>>, <<42624,42651>>, <<42786,42863>>,
    <<42865,42887>>, <<42891,42894>>, <<42896,42954>>, <<42960,42961>>,
    <<42963,42963>>, <<42965,42969>>, <<42997,42998>>, <<43002,43002>>,
    <<43824,43866>>, <<43872,43880>>, <<43888,43967>>, <<64256,64262>>,
    <<64275,64279>>, <<65313,65338>>, <<65345,65370>>, <<66560,66639>>,
    <<66736,66771>>, <<66776,66811>>, <<66928,66938>>, <<66940,66954>>,
    <<66956,66962>>, <<66964,66965>>, <<66967,66977>>, <<66979,66993>>,
    <<66995,67001>>, <<67003,67004>>, <<68736,68786>>, <<68800,68850>>,
    <<71840,71903>>, <<93760,93823>>, <<119808,119892>>, <<119894,119964>>,
    <<119966,119967>>, <<119970,119970>>, <<119973,119974>>,
    <<119977,119980>>, <<119982,119993>>, <<119995,119995>>,
    <<119997,120003>>, <<120005,120069>>, <<120071,120074>>,
    <<120077,120084>>, <<120086,120092>>, <<120094,120121>>,
    <<120123,120126>>, <<120128,120132>>, <<120134,120134>>,
    <<120138,120144>>, <<120146,120485>>, <<120488,120512>>,
    <<120514,120538>>, <<120540,120570>>, <<120572,120596>>,
    <<120598,120628>>, <<120630,120654>>, <<120656,120686>>,
    <<120688,120712>>, <<120714,120744>>, <<120746,120770>>,
    <<120772,120779>>, <<122624,122633>>, <<122635,122654>>,
    <<125184,125251>>, <<127280,127305>>, <<127312,127337>>, <<127344,127369>> }

\* the case-ignorable characters
CaseIgnorableRanges ==
  { <<39,39>>, <<46,46>>, <<58,58>>, <<94,94>>, <<96,96>>, <<168,168>>,
    <<173,173>>, <<175,175>>, <<180,180>>, <<183,184>>, <<688,879>>,
    <<884,885>>, <<890,890>>, <<900,901>>, <<903,903>>, <<1155,1161>>,
    <<1369,1369>>, <<1375,1375>>, <<1425,1469>>, <<1471,1471>>, <<1473,1474>>,
    <<1476,1477>>, <<1479,1479>>, <<1524,1524>>, <<1536,1541>>, <<1552,1562>>,
    <<1564,1564>>, <<1600,1600>>, <<1611,1631>>, <<1648,1648>>, <<1750,1757>>,
    <<1759,1768>>, <<1770,1773>>, <<1807,1807>>, <<1809,1809>>, <<1840,1866>>,
    <<1958,1968>>, <<2027,2037>>, <<2042,2042>>, <<2045,2045>>, <<2070,2093>>,
    <<2137,2139>>, <<2184,2184>>, <<2192,2193>>, <<2200,2207>>, <<2249,2306>>,
    <<2362,2362>>, <<2364,2364>>, <<2369,2376>>, <<2381,2381>>, <<2385,2391>>,
    <<2402,2403>>, <<2417,2417>>, <<2433,2433>>, <<2492,2492>>, <<2497,2500>>,
    <<2509,2509>>, <<2530,2531>>, <<2558,2558>>, <<2561,2562>>, <<2620,2620>>,
    <<2625,2626>>, <<2631,2632>>, <<2635,2637>>, <<2641,2641>>, <<2672,2673>>,
    <<2677,2677>>, <<2689,2690>>, <<2748,2748>>, <<2753,2757>>, <<2759,2760>>,
    <<2765,2765>>, <<2786,2787>>, <<2810,2815>>, <<2817,2817>>, <<2876,2876>>,
    <<2879,2879>>, <<2881,2884>>, <<2893,2893>>, <<2901,2902>>, <<2914,2915>>,
    <<2946,2946>>, <<3008,3008>>, <<3021,3021>>, <<3072,3072>>, <<3076,3076>>,
    <<3132,3132>>, <<3134,3136>>, <<3142,3144>>, <<3146,3149>>, <<3157,3158>>,
    <<3170,3171>>, <<3201,3201>>, <<3260,3260>>, <<3263,3263>>, <<3270,3270>>,
    <<3276,3277>>, <<3298,3299>>, <<3328,3329>>, <<3387,3388>>, <<3393,3396>>,
    <<3405,3405>>, <<3426,3427>>, <<3457,3457>>, <<3530,3530>>, <<3538,3540>>,
    <<3542,3542>>, <<3633,3633>>, <<3636,3642>>, <<3654,3662>>, <<3761,3761>>,
    <<3764,3772>>, <<3782,3782>>, <<3784,3789>>, <<3864,3865>>, <<3893,3893>>,
    <<3895,3895>>, <<3897,3897>>, <<3953,3966>>, <<3968,3972>>, <<3974,3975>>,
    <<3981,3991>>, <<3993,4028>>, <<4038,4038>>, <<4141,4144>>, <<4146,4151>>,
    <<4153,4154>>, <<4157,4158>>, <<4184,4185>>, <<4190,4192>>, <<4209,4212>>,
    <<4226,4226>>, <<4229,4230>>, <<4237,4237>>, <<4253,4253>>, <<4348,4348>>,
    <<4957,4959>>, <<5906,5908>>, <<5938,5939>>, <<5970,5971>>, <<6002,6003>>,
    <<6068,6069>>, <<6071,6077>>, <<6086,6086>>, <<6089,6099>>, <<6103,6103>>,
    <<6109,6109>>, <<6155,6159>>, <<6211,6211>>, <<6277,6278>>, <<6313,6313>>,
    <<6432,6434>>, <<6439,6440>>, <<6450,6450>>, <<6457,6459>>, <<6679,6680>>,
    <<6683,6683>>, <<6742,6742>>, <<6744,6750>>, <<6752,6752>>, <<6754,6754>>,
    <<6757,6764>>, <<6771,6780>>, <<6783,6783>>, <<6823,6823>>, <<6832,6862>>,
    <<6912,6915>>, <<6964,6964>>, <<6966,6970>>, <<6972,6972>>, <<6978,6978>>,
    <<7019,7027>>, <<7040,7041>>, <<7074,7077>>, <<7080,7081>>, <<7083,7085>>,
    <<7142,7142>>, <<7144,7145>>, <<7149,7149>>, <<7151,7153>>, <<7212,7219>>,
    <<7222,7223>>, <<7288,7293>>, <<7376,7378>>, <<7380,7392>>, <<7394,7400>>,
    <<7405,7405>>, <<7412,7412>>, <<7416,7417>>, <<7468,7530>>, <<7544,7544>>,
    <<7579,7679>>, <<8125,8125>>, <<8127,8129>>, <<8141,8143>>, <<8157,8159>>,
    <<8173,8175>>, <<8189,8190>>, <<8203,8207>>, <<8216,8217>>, <<8228,8228>>,
    <<8231,8231>>, <<8234,8238>>, <<8288,8292>>, <<8294,8303>>, <<8305,8305>>,
    <<8319,8319>>, <<8336,8348>>, <<8400,8432>>, <<11388,11389>>,
    <<11503,11505>>, <<11631,11631>>, <<11647,11647>>, <<11744,11775>>,
    <<11823,11823>>, <<12293,12293>>, <<12330,12333>>, <<12337,12341>>,
    <<12347,12347>>, <<12441,12446>>, <<12540,12542>>, <<40981,40981>>,
    <<42232,42237>>, <<42508,42508>>, <<42607,42610>>, <<42612,42621>>,
    <<42623,42623>>, <<42652,42655>>, <<42736,42737>>, <<42752,42785>>,
    <<42864,42864>>, <<42888,42890>>, <<42994,42996>>, <<43000,43001>>,
    <<43010,43010>>, <<43014,43014>>, <<43019,43019>>, <<43045,43046>>,
    <<43052,43052>>, <<43204,43205>>, <<43232,43249>>, <<43263,43263>>,
    <<43302,43309>>, <<43335,43345>>, <<43392,43394>>, <<43443,43443>>,
    <<43446,43449>>, <<43452,43453>>, <<43471,43471>>, <<43493,43494>>,
    <<43561,43566>>, <<43569,43570>>, <<43573,43574>>, <<43587,43587>>,
    <<43596,43596>>, <<43632,43632>>, <<43644,43644>>, <<43696,43696>>,
    <<43698,43700>>, <<43703,43704>>, <<43710,43711>>, <<43713,43713>>,
    <<43741,43741>>, <<43756,43757>>, <<43763,43764>>, <<43766,43766>>,
    <<43867,43871>>, <<43881,43883>>, <<44005,44005>>, <<44008,44008>>,
    <<44013,44013>>, <<64286,64286>>, <<64434,64450>>, <<65024,65039>>,
    <<65043,65043>>, <<65056,65071>>, <<65106,65106>>, <<65109,65109>>,
    <<65279,65279>>, <<65287,65287>>, <<65294,65294>>, <<65306,65306>>,
    <<65342,65342>>, <<65344,65344>>, <<65392,65392>>, <<65438,65439>>,
    <<65507,65507>>, <<65529,65531>>, <<66045,66045>>, <<66272,66272>>,
    <<66422,66426>>, <<67456,67461>>, <<67463,67504>>, <<67506,67514>>,
    <<68097,68099>>, <<68101,68102>>, <<68108,68111>>, <<68152,68154>>,
    <<68159,68159>>, <<68325,68326>>, <<68900,68903>>, <<69291,69292>>,
    <<69446,69456>>, <<69506,69509>>, <<69633,69633>>, <<69688,69702>>,
    <<69744,69744>>, <<69747,69748>>, <<69759,69761>>, <<69811,69814>>,
    <<69817,69818>>, <<69821,69821>>, <<69826,69826>>, <<69837,69837>>,
    <<69888,69890>>, <<69927,69931>>, <<69933,69940>>, <<70003,70003>>,
    <<70016,70017>>, <<70070,70078>>, <<70089,70092>>, <<70095,70095>>,
    <<70191,70193>>, <<70196,70196>>, <<70198,70199>>, <<70206,70206>>,
    <<70367,70367>>, <<70371,70378>>, <<70400,70401>>, <<70459,70460>>,
    <<70464,70464>>, <<70502,70508>>, <<70512,70516>>, <<70712,70719>>,
    <<70722,70724>>, <<70726,70726>>, <<70750,70750>>, <<70835,70840>>,
    <<70842,70842>>, <<70847,70848>>, <<70850,70851>>, <<71090,71093>>,
    <<71100,71101>>, <<71103,71104>>, <<71132,71133>>, <<71219,71226>>,
    <<71229,71229>>, <<71231,71232>>, <<71339,71339>>, <<71341,71341>>,
    <<71344,71349>>, <<71351,71351>>, <<71453,71455>>, <<71458,71461>>,
    <<71463,71467>>, <<71727,71735>>, <<71737,71738>>, <<71995,71996>>,
    <<71998,71998>>, <<72003,72003>>, <<72148,72151>>, <<72154,72155>>,
    <<72160,72160>>, <<72193,72202>>, <<72243,72248>>, <<72251,72254>>,
    <<72263,72263>>, <<72273,72278>>, <<72281,72283>>, <<72330,72342>>,
    <<72344,72345>>, <<72752,72758>>, <<72760,72765>>, <<72767,72767>>,
    <<72850,72871>>, <<72874,72880>>, <<72882,72883>>, <<72885,72886>>,
    <<73009,73014>>, <<73018,73018>>, <<73020,73021>>, <<73023,73029>>,
    <<73031,73031>>, <<73104,73105>>, <<73109,73109>>, <<73111,73111>>,
    <<73459,73460>>, <<78896,78904>>, <<92912,92916>>, <<92976,92982>>,
    <<92992,92995>>, <<94031,94031>>, <<94095,94111>>, <<94176,94177>>,
    <<94179,94180>>, <<110576,110579>>, <<110581,110587>>, <<110589,110590>>,
    <<113821,113822>>, <<113824,113827>>, <<118528,118573>>,
    <<118576,118598>>, <<119143,119145>>, <<119155,119170>>,
    <<119173,119179>>, <<119210,119213>>, <<119362,119364>>,
    <<121344,121398>>, <<121403,121452>>, <<121461,121461>>,
    <<121476,121476>>, <<121499,121503>>, <<121505,121519>>,
    <<122880,122886>>, <<122888,122904>>, <<122907,122913>>,
    <<122915,122916>>, <<122918,122922>>, <<123184,123197>>,
    <<123566,123566>>, <<123628,123631>>, <<125136,125142>>,
    <<125252,125259>>, <<127995,127999>>, <<917505,917505>>,
    <<917536,917631>>, <<917760,917999>> }

UpperChars == 65..90                                 \* A-Z
DigitChars == UNION { z..(z + 9) : z \in DigitZeros }

\* c lies in one of the ranges
InRanges(c, R) == \E r \in R : r[1] <= c /\ c <= r[2]

IsSpace(c) == c \in SpaceChars                       \* \s, str.isspace
IsUpper(c) == c \in UpperChars                       \* [A-Z]
IsDigit(c) == c \in DigitChars                       \* \d
IsWordChar(c) == InRanges(c, WordRanges)             \* \w
IsDot(c) == c = 46                                   \* \.
IsCased(c) == InRanges(c, CasedRanges)
IsCaseIgnorable(c) == InRanges(c, CaseIgnorableRanges)

\* the lowercase of a character c above U+007F that has one, by the simple
\* mappings; c itself otherwise
LowerSimple(c) ==
  LET m == { r \in LowerRanges :
               r[1] <= c /\ c <= r[2] /\ (c - r[1]) % r[3] = 0 }
  IN  IF m = {} THEN c ELSE c + (CHOOSE r \in m : TRUE)[4]

\* c.lower() of a single character c: one character, but for U+0130, whose
\* lowercase is "i" followed by U+0307
LowerOf(c) ==
  IF c < 128 THEN (IF c \in UpperChars THEN << c + 32 >> ELSE << c >>)
  ELSE IF c = 304 THEN << 105, 775 >>
  ELSE << LowerSimple(c) >>

\* the capital sigma at position i of text is lowered to the final sigma:
\* the nearest character before it that is not case-ignorable is cased, and
\* the nearest one after it is not
FinalSigma(text, i) ==
  /\ \E j \in 1..(i - 1) :
        /\ IsCased(text[j])
        /\ \A m \in (j + 1)..(i - 1) : IsCaseIgnorable(text[m])
  /\ ~ \E j \in (i + 1)..Len(text) :
        /\ IsCased(text[j])
        /\ \A m \in (i + 1)..(j - 1) : IsCaseIgnorable(text[m])

Idx(n) == [i \in 1..n |-> i]

\* text without the characters marked DROP
Kept(marked) == SelectSeq(marked, LAMBDA c: c # DROP)

\* str.lower(): character by character, but for the capital sigma (U+03A3),
\* lowered by its place in the word, and for U+0130, lowered to two characters
lower(text) ==
  LET n == Len(text)
      f == [i \in 1..n |->
              IF text[i] < 128
              THEN (IF text[i] \in UpperChars THEN text[i] + 32 ELSE text[i])
              ELSE IF text[i] = 931
              THEN (IF FinalSigma(text, i) THEN 962 ELSE 963)
              ELSE IF text[i] = 304 THEN 105
              ELSE LowerSimple(text[i])]
  IN  IF \A i \in 1..n : text[i] # 304
      THEN SubSeq(f, 1, n)
      ELSE Kept([k \in 1..(2 * n) |->
                   IF k % 2 = 1 THEN f[(k + 1) \div 2]
                   ELSE IF text[k \div 2] = 304 THEN 775 ELSE DROP])

\* str.strip()
strip(text) ==
  LET ink == SelectSeq(Idx(Len(text)), LAMBDA i: ~IsSpace(text[i]))
  IN  IF Len(ink) = 0 THEN <<>> ELSE SubSeq(text, ink[1], ink[Len(ink)])

\* str.split(NL)
split_lines(text) ==
  LET nl == SelectSeq(Idx(Len(text)), LAMBDA i: text[i] = NL)
      f  == [k \in 1..(Len(nl) + 1) |->
               SubSeq(text,
                      IF k = 1 THEN 1 ELSE nl[k - 1] + 1,
                      IF k = Len(nl) + 1 THEN Len(text) ELSE nl[k] - 1)]
  IN  SubSeq(f, 1, Len(nl) + 1)

\* str.split(): the maximal runs of non-whitespace characters
split(text) ==
  LET n == Len(text)
      starts == SelectSeq(Idx(n), LAMBDA i:
                  ~IsSpace(text[i]) /\ (i = 1 \/ IsSpace(text[i - 1])))
      ends   == SelectSeq(Idx(n), LAMBDA i:
                  ~IsSpace(text[i]) /\ (i = n \/ IsSpace(text[i + 1])))
      f == [k \in 1..Len(starts) |-> SubSeq(text, starts[k], ends[k])]
  IN  SubSeq(f, 1, Len(starts))

\* " ".join(words[lo..hi])
RECURSIVE JoinRange(_, _, _)
JoinRange(words, lo, hi) ==
  IF lo > hi THEN <<>>
  ELSE IF lo = hi THEN words[lo]
  ELSE LET mid == (lo + hi) \div 2
       IN  JoinRange(words, lo, mid) \o <<SP>> \o JoinRange(words, mid + 1, hi)

join(words) == JoinRange(words, 1, Len(words))

\* k in text
contains(text, k) ==
  \/ Len(k) = 0
  \/ \E i \in 1..(Len(text) - Len(k) + 1) :
        /\ text[i] = k[1]
        /\ SubSeq(text, i, i + Len(k) - 1) = k

(***************************************************************************)
(* clean_text: the four substitutions and the final strip.                 *)
(***************************************************************************)
\* text.replace("\x00", "")
RemoveNul(text) == SelectSeq(text, LAMBDA c: c # NUL)

\* re.sub(r"\.{3,}", " ", text): each maximal run of three or more dots
\* becomes one space
SubDots(text) ==
  LET n == Len(text)
      InRun(i) == /\ IsDot(text[i])
                  /\ \E a \in {i - 2, i - 1, i} :
                        /\ a >= 1
                        /\ a + 2 <= n
                        /\ IsDot(text[a]) /\ IsDot(text[a + 1]) /\ IsDot(text[a + 2])
  IN  Kept([i \in 1..n |->
              IF InRun(i)
              THEN (IF i = 1 \/ ~IsDot(text[i - 1]) THEN SP ELSE DROP)
              ELSE text[i]])

\* re.sub(r"\n\s*\n", "\n", text): the match starts at the first newline of a
\* whitespace run and, \s* being greedy, ends at the last newline of that run;
\* the whole match becomes one newline
SubBlankLines(text) ==
  LET n == Len(text)
      NlBefore(i) == /\ i > 1
                     /\ IsSpace(text[i - 1])
                     /\ \E j \in 1..(i - 1) :
                           /\ text[j] = NL
                           /\ \A m \in j..i : IsSpace(text[m])
      NlFrom(i) == \E k \in i..n :
                       /\ text[k] = NL
                       /\ \A m \in i..k : IsSpace(text[m])
  IN  Kept([i \in 1..n |->
              IF IsSpace(text[i]) /\ NlBefore(i) /\ NlFrom(i) THEN DROP ELSE text[i]])

\* re.sub(r"\s{2,}", " ", text): each maximal run of two or more whitespace
\* characters (newlines included) becomes one space
SubSpaces(text) ==
  LET n == Len(text)
      InRun(i) == /\ IsSpace(text[i])
                  /\ \/ (i > 1 /\ IsSpace(text[i - 1]))
                     \/ (i < n /\ IsSpace(text[i + 1]))
  IN  Kept([i \in 1..n |->
              IF InRun(i)
              THEN (IF i = 1 \/ ~IsSpace(text[i - 1]) THEN SP ELSE DROP)
              ELSE text[i]])

clean_text(text) == strip(SubSpaces(SubBlankLines(SubDots(RemoveNul(text)))))

(***************************************************************************)
(* HEADING_RE and is_heading.  The four alternatives are anchored at both  *)
(* ends of the stripped line; "." matches any character but a newline.     *)
(***************************************************************************)
AnyChar(c) == c # NL

\* positions lo..hi of s all satisfy the class (TRUE on an empty range)
AllIn(s, lo, hi, Class(_)) == \A m \in lo..hi : Class(s[m])

\* "$" after position e of s: the end of the string, or just before a newline
\* that ends the string
DollarAt(s, e) == e = Len(s) \/ (e = Len(s) - 1 /\ s[Len(s)] = NL)

\* [A-Z].{3,}$ starting at position p
CapitalThenThree(s, p) ==
  /\ p <= Len(s)
  /\ IsUpper(s[p])
  /\ \E e \in (p + 3)..Len(s) :
        /\ DollarAt(s, e)
        /\ AllIn(s, p + 1, e, AnyChar)

\* \d+[\.\d]*\s+[A-Z].{3,}
HeadingNumbered(s) ==
  LET DotOrDigit(c) == IsDot(c) \/ IsDigit(c)
  IN  /\ Len(s) >= 1
      /\ IsDigit(s[1])
      /\ \E q \in 2..Len(s) : \E p \in (q + 1)..Len(s) :
            /\ AllIn(s, 2, q - 1, DotOrDigit)
            /\ AllIn(s, q, p - 1, IsSpace)
            /\ CapitalThenThree(s, p)

\* CHAPTER\s+\w+.*
HeadingChapter(s) ==
  /\ Len(s) >= 9
  /\ SubSeq(s, 1, 7) = Str(<<"C","H","A","P","T","E","R">>)
  /\ \E p \in 9..Len(s) :
        /\ AllIn(s, 8, p - 1, IsSpace)
        /\ IsWordChar(s[p])
        /\ \E e \in p..Len(s) :
              /\ DollarAt(s, e)
              /\ AllIn(s, p + 1, e, AnyChar)

\* [A-Z][A-Z\s]{4,}
HeadingCaps(s) ==
  LET UpperOrSpace(c) == IsUpper(c) \/ IsSpace(c)
  IN  /\ Len(s) >= 5
      /\ IsUpper(s[1])
      /\ \E e \in 5..Len(s) :
            /\ DollarAt(s, e)
            /\ AllIn(s, 2, e, UpperOrSpace)

\* [A-Z]\.\s+[A-Z].{3,}
HeadingLettered(s) ==
  /\ Len(s) >= 2
  /\ IsUpper(s[1])
  /\ IsDot(s[2])
  /\ \E p \in 4..Len(s) :
        /\ AllIn(s, 3, p - 1, IsSpace)
        /\ CapitalThenThree(s, p)

HEADING_RE(s) ==
  HeadingNumbered(s) \/ HeadingChapter(s) \/ HeadingCaps(s) \/ HeadingLettered(s)

is_heading(line) == HEADING_RE(strip(line))

(***************************************************************************)
(* The chunker: extract_chunks_with_metadata(doc, start_page, end_page).   *)
(* One step per page fetched and one per line of the page, in the order    *)
(* of the two for loops.  doc is the external document, so the text of a   *)
(* page is chosen when the page is fetched.                                *)
(***************************************************************************)
MaxPages == 2        \* pages in the range end_page - start_page

\* n copies of word joined by the character sep
RepSep(word, sep, n) ==
  LET k == Len(word) + 1
      f == [i \in 1..(n * k - 1) |-> IF i % k = 0 THEN sep ELSE word[i % k]]
  IN  SubSeq(f, 1, n * k - 1)

\* n copies of word joined by single spaces
Rep(word, n) == RepSep(word, SP, n)

W_alarm == Str(<<"a","l","a","r","m">>)
W_hello == Str(<<"h","e","l","l","o">>)
W_axis  == Str(<<"a","x","i","s">>)
W_gain  == Str(<<"g","a","i","n">>)
W_Fault == Str(<<"F","a","u","l","t">>)

PageHeadingShort == Str(<<"A","X","I","S"," ","S","E","T","U","P","\n","m","o","t","o","r"," ","s","p","e","e","d">>)
PageAlarm   == Rep(W_alarm, 30)
PageNoKey   == Rep(W_hello, 30)
PageBig     == Rep(W_axis, MAX_WORDS_PER_CHUNK + 1)
PageAlmost  == Rep(W_gain, MAX_WORDS_PER_CHUNK - 1)
PageOneWord == Str(<<"l","i","m","i","t">>)
PageMixed   == Str(<<"3",".","2"," ","A","x","i","s"," ","C","a","l","i","b","r","a","t","i","o","n","\n","C","h","e","c","k"," ","t","h","e"," ","M","O","T","O","R","\n","\n","\n","B","."," ","F","a","u","l","t"," ","C","o","d","e","s","\n">>) \o Rep(W_Fault, 30)
PageBlank   == Str(<<" ","\n","\t","\n">>)
PageTail    == Rep(W_alarm, 30) \o Str(<<"\n","R","E","S","E","T"," ","S","T","E","P","S","\n","r","e","s","e","t"," ","n","o","w">>)
PageDots    == Str(<<"C","o","n","t","e","n","t","s"," ",".",".",".",".","."," ","1","2">>) \o <<NUL>> \o Str(<<" "," ","\n","r","e","s","e","t">>)

PageCapsBig == Rep(Str(<<"A","X","I","S">>), MAX_WORDS_PER_CHUNK)

\* a page as PDF text has them: a heading numbered with an Arabic-Indic digit
\* (U+0663) and spaced with a no-break space (U+00A0) and an em space
\* (U+2003), words separated by no-break spaces, a line holding a vertical
\* tab only, a chapter named with U+00E9, and a last line with U+0130, a
\* capital sigma and the Kelvin sign (U+212A)
PageUnicode ==
  << 1635, 160 >> \o Str(<<"A","x","i","s">>) \o << 8195 >>
     \o Str(<<"S","e","t","u","p","\n">>)
     \o RepSep(Str(<<"A","l","a","r","m">>), 160, 30)
     \o << NL, 11, NL >> \o Str(<<"C","H","A","P","T","E","R"," ">>)
     \o << 233, NL, 304, 931, 160, 8490 >>

RawPages == { PageHeadingShort, PageAlarm, PageNoKey, PageBig, PageAlmost,
              PageOneWord, PageMixed, PageBlank, PageTail, PageDots, PageCapsBig,
              PageUnicode }

StartPages == {0, START_PAGE}

VARIABLES
  cpc,              \* position in extract_chunks_with_metadata
  start_page, end_page,
  page_idx,         \* the next value of range(start_page, end_page)
  page_num,
  raw,              \* page.get_text("text") of the page fetched last
  lines,            \* the lines of cleaned.split("\n") still to visit
  chunks,
  current_words, current_pages, current_section,
  \* history, read by the properties only
  last_heading,     \* the last line for which is_heading held
  acc_lines,        \* the lines that put the words of current_words there
  flush_log,        \* one entry per call of flush
  all_words         \* every word appended to the accumulator, in order

cvars == << cpc, start_page, end_page, page_idx, page_num, raw, lines, chunks,
            current_words, current_pages, current_section,
            last_heading, acc_lines, flush_log, all_words >>

VARIABLES
  today,            \* date.today()
  quota_file,
  store,            \* the committed rows of manual_embeddings, in insertion order
  pc,               \* position of each process in main
  quota, remaining, main_chunks, inserted, skipped,   \* locals of main
  loop_i,           \* i of the for loop: the chunk being attempted
  txn,              \* rows inserted by the open transaction of the connection
  \* history, read by the properties only
  runs,             \* runs started
  requests_today,   \* embedding requests issued on the current date
  issued,           \* embedding requests issued by the run
  attempts,         \* the run's finished attempts: the chunk, and the call of
                    \* lines 171-188 that raised or "ok" when all returned
  file_at_start, start_day, used_loaded,
  store_at_start,   \* the rows a run found that the gate stopped
  started_exhausted,
  exhausted_day,    \* the date of a saved state with no quota remaining
  cleared,          \* whether the DELETE of the run has been committed
  extracted,        \* the list extract_chunks_with_metadata returned to the run
  committed,        \* the chunks of the run whose conn.commit() returned, in order
  embedded,         \* the calls of get_embedding that returned in the run
  deleted,          \* rows the DELETE of the open transaction has taken: the
                    \* first deleted[p] rows of store, gone when it commits
  searches          \* calls of search_manuals (test.py) so far

mvars == << today, quota_file, store, pc, quota, remaining, main_chunks, loop_i,
            inserted, skipped, txn, runs, requests_today, issued, attempts,
            file_at_start, store_at_start, start_day, used_loaded,
            started_exhausted, exhausted_day, cleared, extracted,
            committed, embedded, deleted, searches >>

vars == << cvars, mvars >>

SeqRange(s) == { s[i] : i \in 1..Len(s) }
Min(S) == CHOOSE m \in S : \A o \in S : m <= o
Max(S) == CHOOSE m \in S : \A o \in S : m >= o

\* PageNum with the page left 0-indexed
PageNumZeroIndexed(idx) == idx

\* page_num = page_idx + 1
PageNum(idx) == idx + 1

\* flush without the keyword test
flushNoKeywordTest(chs, words, pages, section) ==
  LET text == strip(join(words))
  IN  IF Len(text) < MIN_CHUNK_LENGTH
        THEN [chunks |-> chs, raised |-> FALSE]
      ELSE IF pages = <<>>
        THEN [chunks |-> chs, raised |-> TRUE]
      ELSE [chunks |-> Append(chs, [content    |-> text,
                                    page_start |-> Min(SeqRange(pages)),
                                    page_end   |-> Max(SeqRange(pages)),
                                    section    |-> section]),
            raised |-> FALSE]

\* the inner function flush(words, pages, section): the chunks list after the
\* call, and whether the call raised (min of an empty list)
flush(chs, words, pages, section) ==
  LET text == strip(join(words))
  IN  IF Len(text) < MIN_CHUNK_LENGTH
        THEN [chunks |-> chs, raised |-> FALSE]
      ELSE IF ~ \E lower_text \in {lower(text)} :   \* computed once
                  \E k \in IMPORTANT_KEYWORDS : contains(lower_text, k)
        THEN [chunks |-> chs, raised |-> FALSE]
      ELSE IF pages = <<>>
        THEN [chunks |-> chs, raised |-> TRUE]
      ELSE [chunks |-> Append(chs, [content    |-> text,
                                    page_start |-> Min(SeqRange(pages)),
                                    page_end   |-> Max(SeqRange(pages)),
                                    section    |-> section]),
            raised |-> FALSE]

\* HeadingFlushTag with current_section assigned before the flush
HeadingFlushTagNew(section, line) == line

\* the section argument of the flush a heading line triggers
HeadingFlushTag(section, line) == section

\* SkipLine with blank lines processed like the others
SkipLineNever(line) == FALSE

\* if not line: continue
SkipLine(line) == line = <<>>

\* Extend assigning the words of the line to the accumulator
ExtendAssign(acc, words) == words

\* current_words.extend(words)
Extend(acc, words) == acc \o words

\* len(current_words) + len(words) >= MAX_WORDS_PER_CHUNK
LimitReached(nacc, nwords) == nacc + nwords >= MAX_WORDS_PER_CHUNK

\* the entry of flush_log for one call of flush
LogEntry(words, section, trigger, before, after) ==
  [ words |-> words, lines |-> acc_lines, section |-> section,
    trigger |-> trigger, heading_before |-> last_heading,
    chunk_index |-> IF Len(after) > Len(before) THEN Len(after) ELSE 0 ]

ChunkInit ==
  /\ cpc = "pages"
  /\ start_page \in StartPages
  /\ end_page \in start_page..(start_page + MaxPages)
  /\ page_idx = start_page
  /\ page_num = 0
  /\ raw = <<>>
  /\ lines = <<>>
  /\ chunks = <<>>
  /\ current_words = <<>>
  /\ current_pages = <<>>
  /\ current_section = UNKNOWN_SECTION
  /\ last_heading = UNKNOWN_SECTION
  /\ acc_lines = <<>>
  /\ flush_log = <<>>
  /\ all_words = <<>>

\* for page_idx in range(start_page, end_page): ... cleaned.split("\n")
FetchPage ==
  /\ cpc = "pages"
  /\ lines = <<>>
  /\ page_idx < end_page
  /\ \E text \in RawPages :
        /\ raw' = text
        /\ lines' = split_lines(clean_text(text))
  /\ page_num' = PageNum(page_idx)
  /\ page_idx' = page_idx + 1
  /\ UNCHANGED << cpc, start_page, end_page, chunks, current_words, current_pages,
                  current_section, last_heading, acc_lines, flush_log, all_words >>
  /\ UNCHANGED mvars

\* one iteration of: for line in cleaned.split("\n")
ProcessLine ==
  /\ cpc = "pages"
  /\ lines # <<>>
  /\ lines' = Tail(lines)
  /\ \E line \in {strip(Head(lines))} :   \* each value is computed once
         IF SkipLine(line)
         THEN UNCHANGED << cpc, chunks, current_words, current_pages, current_section,
                           last_heading, acc_lines, flush_log, all_words >>
         ELSE
          \E head \in {is_heading(line)} : \E words \in {split(line)} :
           LET hf    == head /\ current_words # <<>>
               tag1  == HeadingFlushTag(current_section, line)
           IN
           \E r1 \in {IF hf THEN flush(chunks, current_words, current_pages, tag1)
                              ELSE [chunks |-> chunks, raised |-> FALSE]} :
           LET
               w1    == IF hf THEN <<>> ELSE current_words
               p1    == IF hf THEN <<>> ELSE current_pages
               a1    == IF hf THEN <<>> ELSE acc_lines
               log1  == IF hf THEN Append(flush_log,
                                     LogEntry(current_words, tag1, "heading",
                                              chunks, r1.chunks))
                              ELSE flush_log
               s1    == IF head THEN line ELSE current_section
               lh1   == IF head THEN line ELSE last_heading
               lf    == ~r1.raised /\ LimitReached(Len(w1), Len(words))
           IN
           \E r2 \in {IF lf THEN flush(r1.chunks, w1, p1, s1) ELSE r1} :
           LET
               w2    == IF lf THEN <<>> ELSE w1
               p2    == IF lf THEN <<>> ELSE p1
               a2    == IF lf THEN <<>> ELSE a1
               log2  == IF lf THEN Append(log1,
                                     [ words |-> w1, lines |-> a1, section |-> s1,
                                       trigger |-> "limit", heading_before |-> lh1,
                                       chunk_index |->
                                         IF Len(r2.chunks) > Len(r1.chunks)
                                         THEN Len(r2.chunks) ELSE 0 ])
                              ELSE log1
           IN  /\ chunks' = r2.chunks
               /\ flush_log' = log2
               /\ IF r2.raised
                  THEN /\ cpc' = "raised"
                       /\ UNCHANGED << current_words, current_pages, current_section,
                                       last_heading, acc_lines, all_words >>
                  ELSE /\ cpc' = cpc
                       /\ current_section' = s1
                       /\ last_heading' = lh1
                       /\ current_words' = Extend(w2, words)
                       /\ current_pages' = Append(p2, page_num)
                       /\ acc_lines' = Append(a2, [ line |-> line, page |-> page_num,
                                                    heading |-> head, section |-> lh1 ])
                       /\ all_words' = all_words \o words
  /\ UNCHANGED << start_page, end_page, page_idx, page_num, raw >>
  /\ UNCHANGED mvars

\* after the loops: if current_words: flush(...); return chunks
FinalFlush ==
  /\ cpc = "pages"
  /\ lines = <<>>
  /\ page_idx >= end_page
  /\ LET r == IF current_words # <<>>
                THEN flush(chunks, current_words, current_pages, current_section)
                ELSE [chunks |-> chunks, raised |-> FALSE]
     IN  /\ chunks' = r.chunks
         /\ cpc' = IF r.raised THEN "raised" ELSE "returned"
         /\ flush_log' = IF current_words # <<>>
                           THEN Append(flush_log,
                                  LogEntry(current_words, current_section, "final",
                                           chunks, r.chunks))
                           ELSE flush_log
  /\ UNCHANGED << start_page, end_page, page_idx, page_num, raw, lines, current_words,
                  current_pages, current_section, last_heading, acc_lines, all_words >>
  /\ UNCHANGED mvars

ChunkNext == FetchPage \/ ProcessLine \/ FinalFlush

(***************************************************************************)
(* The quota file and main().  A run is one call of main by a process; its *)
(* locals are indexed by the process.  The k-th chunk of a run stands for  *)
(* the k-th element of the list extract_chunks_with_metadata returned, and *)
(* a stored row for the chunk it was inserted for.  Every call of the loop *)
(* body that reaches outside the process (get_embedding, cur.execute,      *)
(* conn.commit, save_quota, print, conn.rollback) either returns or raises. *)
(***************************************************************************)
MaxChunks == 2       \* chunks an extraction returns
MaxRuns == 2         \* runs started in a behaviour of Spec
MaxDay == 2          \* calendar days in a behaviour of Spec
MaxSearches == 2     \* calls of search_manuals in a behaviour of SpecDay
MaxDayRuns == 52     \* runs started in a behaviour of SpecDay

Procs == {"A", "B"}
Cap == DAILY_QUOTA - QUOTA_SAFETY_BUFFER

\* the contents of QUOTA_FILE; dates are day numbers, today starts at 1 and
\* day 0 is yesterday
NoFile == [kind |-> "absent", date |-> 0, used |-> 0]
Corrupt == [kind |-> "corrupt", date |-> 0, used |-> 0]   \* not JSON: a write cut short
JsonFile(data) == [kind |-> "json", date |-> data.date, used |-> data.used]

\* load_quota with a stored date that is never compared
load_quotaIgnoringDate(file, day) ==
  IF file.kind = "json" THEN [date |-> file.date, used |-> file.used]
  ELSE [date |-> day, used |-> 0]

\* load_quota() when json.load does not raise
load_quota(file, day) ==
  IF file.kind = "json" /\ file.date = day
  THEN [date |-> file.date, used |-> file.used]
  ELSE [date |-> day, used |-> 0]

\* save_quota(data)
save_quota(data) == JsonFile(data)

\* quota_remaining without the safety buffer
quota_remainingNoBuffer(data) == DAILY_QUOTA - data.used

quota_remaining(data) == (DAILY_QUOTA - QUOTA_SAFETY_BUFFER) - data.used

\* the gate letting a run with remaining = 0 through
GateClosedStrict(r) == r < 0

\* if remaining <= 0: return
GateClosed(r) == r <= 0

\* the chunk list left as extracted
TruncateNothing(chs, r) == chs

\* if len(chunks) > remaining: chunks = chunks[:remaining]
Truncate(chs, r) == IF Len(chs) > r THEN SubSeq(chs, 1, r) ELSE chs

Running(p) ==
  pc[p] \in {"clear", "clear_commit", "extract", "embed", "insert", "commit", "save"}

MainInit ==
  /\ today = 1
  /\ quota_file \in {NoFile, JsonFile([date |-> 0, used |-> Cap])} \cup
        { JsonFile([date |-> 1, used |-> u]) : u \in {Cap - 2, Cap - 1, Cap} }
  /\ store = <<0>>          \* a row an earlier run stored
  /\ pc = [p \in Procs |-> "idle"]
  /\ quota = [p \in Procs |-> [date |-> 0, used |-> 0]]
  /\ remaining = [p \in Procs |-> 0]
  /\ main_chunks = [p \in Procs |-> <<>>]
  /\ loop_i = [p \in Procs |-> 0]
  /\ inserted = [p \in Procs |-> 0]
  /\ skipped = [p \in Procs |-> 0]
  /\ txn = [p \in Procs |-> <<>>]
  /\ runs = 0
  /\ requests_today = IF quota_file.kind = "json" /\ quota_file.date = today
                        THEN quota_file.used ELSE 0
  /\ issued = [p \in Procs |-> 0]
  /\ attempts = [p \in Procs |-> <<>>]
  /\ file_at_start = [p \in Procs |-> NoFile]
  /\ store_at_start = [p \in Procs |-> <<>>]
  /\ start_day = [p \in Procs |-> 0]
  /\ used_loaded = [p \in Procs |-> 0]
  /\ started_exhausted = [p \in Procs |-> FALSE]
  /\ exhausted_day = IF quota_file.kind = "json" /\ quota_remaining(quota_file) <= 0
                       THEN quota_file.date ELSE -1
  /\ cleared = [p \in Procs |-> FALSE]
  /\ extracted = [p \in Procs |-> <<>>]
  /\ committed = [p \in Procs |-> <<>>]
  /\ embedded = [p \in Procs |-> 0]
  /\ deleted = [p \in Procs |-> 0]
  /\ searches = 0

\* main, lines 141-147: load the quota and pass or stop at the gate; the run is
\* over before the gate when one of the prints of lines 143-146 raises
Start(p) ==
  /\ pc[p] \in {"idle", "done", "crashed", "killed", "raised"}
  /\ main_chunks' = [main_chunks EXCEPT ![p] = <<>>]
  /\ loop_i' = [loop_i EXCEPT ![p] = 0]
  /\ inserted' = [inserted EXCEPT ![p] = 0]
  /\ skipped' = [skipped EXCEPT ![p] = 0]
  /\ txn' = [txn EXCEPT ![p] = <<>>]
  /\ issued' = [issued EXCEPT ![p] = 0]
  /\ attempts' = [attempts EXCEPT ![p] = <<>>]
  /\ file_at_start' = [file_at_start EXCEPT ![p] = quota_file]
  /\ start_day' = [start_day EXCEPT ![p] = today]
  /\ started_exhausted' = [started_exhausted EXCEPT ![p] = (exhausted_day = today)]
  /\ IF quota_file.kind = "corrupt"
     THEN \* json.load raises and main ends with the exception
          /\ pc' = [pc EXCEPT ![p] = "crashed"]
          /\ quota' = [quota EXCEPT ![p] = [date |-> today, used |-> 0]]
          /\ remaining' = [remaining EXCEPT ![p] = 0]
          /\ used_loaded' = [used_loaded EXCEPT ![p] = 0]
          /\ store_at_start' = [store_at_start EXCEPT ![p] = <<>>]
     ELSE LET q == load_quota(quota_file, today)
              r == quota_remaining(q)
          IN  /\ quota' = [quota EXCEPT ![p] = q]
              /\ remaining' = [remaining EXCEPT ![p] = r]
              /\ used_loaded' = [used_loaded EXCEPT ![p] = q.used]
              /\ store_at_start' = [store_at_start EXCEPT ![p] =
                                      IF GateClosed(r) THEN store ELSE <<>>]
              /\ \E to \in {IF GateClosed(r) THEN "done" ELSE "clear", "killed"} :
                    pc' = [pc EXCEPT ![p] = to]
  /\ UNCHANGED << today, quota_file, store, requests_today, exhausted_day >>
  /\ cleared' = [cleared EXCEPT ![p] = FALSE]
  /\ extracted' = [extracted EXCEPT ![p] = <<>>]
  /\ committed' = [committed EXCEPT ![p] = <<>>]
  /\ embedded' = [embedded EXCEPT ![p] = 0]
  /\ deleted' = [deleted EXCEPT ![p] = 0]
  /\ UNCHANGED searches
  /\ UNCHANGED cvars

\* main, lines 148-153: connect, ensure_schema, and the DELETE statement.
\* The statement runs in the transaction of the connection: it takes the rows
\* committed by then, and they stay visible to the others until line 154.  It
\* waits for as long as another transaction holds rows it has deleted and not
\* yet committed.
DeleteRows(p) ==
  /\ pc[p] = "clear"
  /\ \A q \in Procs \ {p} : deleted[q] = 0
  /\ deleted' = [deleted EXCEPT ![p] = Len(store)]
  /\ pc' = [pc EXCEPT ![p] = "clear_commit"]
  /\ UNCHANGED << today, quota_file, store, quota, remaining, main_chunks, loop_i,
                  inserted, skipped, txn, requests_today, issued, attempts,
                  file_at_start, store_at_start, start_day, used_loaded,
                  started_exhausted, exhausted_day >>
  /\ UNCHANGED << cleared, extracted, committed, embedded, searches >>
  /\ UNCHANGED << runs, cvars >>

\* ClearStore with the DELETE left out: the rows of earlier runs stay
ClearStoreKeepsRows(p) ==
  /\ pc[p] = "clear_commit"
  /\ store' = store
  /\ deleted' = [deleted EXCEPT ![p] = 0]
  /\ pc' = [pc EXCEPT ![p] = "extract"]
  /\ UNCHANGED << today, quota_file, quota, remaining, main_chunks, loop_i, inserted,
                  skipped, txn, requests_today, issued, attempts, file_at_start,
                  store_at_start, start_day, used_loaded, started_exhausted,
                  exhausted_day >>
  /\ cleared' = [cleared EXCEPT ![p] = TRUE]
  /\ UNCHANGED << extracted, committed, embedded, searches >>
  /\ UNCHANGED << runs, cvars >>

\* main, line 154: conn.commit() returns and the rows the DELETE took are
\* gone; the rows committed since the statement was executed stay
ClearStore(p) ==
  /\ pc[p] = "clear_commit"
  /\ store' = SubSeq(store, deleted[p] + 1, Len(store))
  /\ deleted' = [deleted EXCEPT ![p] = 0]
  /\ pc' = [pc EXCEPT ![p] = "extract"]
  /\ UNCHANGED << today, quota_file, quota, remaining, main_chunks, loop_i, inserted,
                  skipped, txn, requests_today, issued, attempts, file_at_start,
                  store_at_start, start_day, used_loaded, started_exhausted,
                  exhausted_day >>
  /\ cleared' = [cleared EXCEPT ![p] = TRUE]
  /\ UNCHANGED << extracted, committed, embedded, searches >>
  /\ UNCHANGED << runs, cvars >>

\* main, lines 156-165: extract, truncate to the remaining quota, zero the counts
Extract(p) ==
  /\ pc[p] = "extract"
  /\ \E n \in 0..MaxChunks :
        /\ extracted' = [extracted EXCEPT ![p] = Idx(n)]
        /\ main_chunks' = [main_chunks EXCEPT ![p] = Truncate(Idx(n), remaining[p])]
  /\ loop_i' = [loop_i EXCEPT ![p] = 1]
  /\ inserted' = [inserted EXCEPT ![p] = 0]
  /\ skipped' = [skipped EXCEPT ![p] = 0]
  /\ pc' = [pc EXCEPT ![p] = "embed"]
  /\ UNCHANGED << today, quota_file, store, quota, remaining, txn, requests_today,
                  issued, attempts, file_at_start, store_at_start, start_day,
                  used_loaded, started_exhausted, exhausted_day >>
  /\ UNCHANGED << cleared, committed, embedded, deleted, searches >>
  /\ UNCHANGED << runs, cvars >>

\* line 171: get_embedding returns
EmbedOk(p) ==
  /\ pc[p] = "embed"
  /\ loop_i[p] <= Len(main_chunks[p])
  /\ requests_today' = requests_today + 1
  /\ issued' = [issued EXCEPT ![p] = @ + 1]
  /\ pc' = [pc EXCEPT ![p] = "insert"]
  /\ UNCHANGED << today, quota_file, store, quota, remaining, main_chunks, loop_i,
                  inserted, skipped, txn, attempts, file_at_start, store_at_start,
                  start_day, used_loaded, started_exhausted, exhausted_day >>
  /\ embedded' = [embedded EXCEPT ![p] = @ + 1]
  /\ UNCHANGED << cleared, extracted, committed, deleted, searches >>
  /\ UNCHANGED << runs, cvars >>

\* lines 172-185: cur.execute(INSERT ...) returns
InsertOk(p) ==
  /\ pc[p] = "insert"
  /\ txn' = [txn EXCEPT ![p] = Append(@, main_chunks[p][loop_i[p]])]
  /\ pc' = [pc EXCEPT ![p] = "commit"]
  /\ UNCHANGED << today, quota_file, store, quota, remaining, main_chunks, loop_i,
                  inserted, skipped, requests_today, issued, attempts,
                  file_at_start, store_at_start, start_day, used_loaded,
                  started_exhausted, exhausted_day >>
  /\ UNCHANGED << cleared, extracted, committed, embedded, deleted, searches >>
  /\ UNCHANGED << runs, cvars >>

\* line 186: conn.commit() returns
CommitOk(p) ==
  /\ pc[p] = "commit"
  /\ store' = store \o txn[p]
  /\ txn' = [txn EXCEPT ![p] = <<>>]
  /\ pc' = [pc EXCEPT ![p] = "save"]
  /\ UNCHANGED << today, quota_file, quota, remaining, main_chunks, loop_i, inserted,
                  skipped, requests_today, issued, attempts, file_at_start,
                  store_at_start, start_day, used_loaded, started_exhausted,
                  exhausted_day >>
  /\ committed' = [committed EXCEPT ![p] = Append(@, main_chunks[p][loop_i[p]])]
  /\ UNCHANGED << cleared, extracted, embedded, deleted, searches >>
  /\ UNCHANGED << runs, cvars >>

\* SaveOk incrementing the count the file holds at the time of the write
SaveOkAtomic(p) ==
  /\ pc[p] = "save"
  /\ LET q == [quota[p] EXCEPT !.used = load_quota(quota_file, quota[p].date).used + 1]
     IN  /\ quota' = [quota EXCEPT ![p] = q]
         /\ quota_file' = save_quota(q)
         /\ exhausted_day' = IF quota_remaining(q) <= 0 THEN q.date ELSE exhausted_day
  /\ inserted' = [inserted EXCEPT ![p] = @ + 1]
  /\ attempts' = [attempts EXCEPT ![p] =
                    Append(@, [chunk |-> main_chunks[p][loop_i[p]], result |-> "ok"])]
  /\ loop_i' = [loop_i EXCEPT ![p] = @ + 1]
  /\ pc' = [pc EXCEPT ![p] = "embed"]
  /\ UNCHANGED << today, store, remaining, main_chunks, skipped, txn,
                  requests_today, issued, file_at_start, store_at_start, start_day,
                  used_loaded, started_exhausted >>
  /\ UNCHANGED << cleared, extracted, committed, embedded, deleted, searches >>
  /\ UNCHANGED << runs, cvars >>

\* lines 187-190: quota["used"] += 1; save_quota(quota) returns; inserted += 1;
\* print("OK") returns
SaveOk(p) ==
  /\ pc[p] = "save"
  /\ LET q == [quota[p] EXCEPT !.used = @ + 1]
     IN  /\ quota' = [quota EXCEPT ![p] = q]
         /\ quota_file' = save_quota(q)
         /\ exhausted_day' = IF quota_remaining(q) <= 0 THEN q.date ELSE exhausted_day
  /\ inserted' = [inserted EXCEPT ![p] = @ + 1]
  /\ attempts' = [attempts EXCEPT ![p] =
                    Append(@, [chunk |-> main_chunks[p][loop_i[p]], result |-> "ok"])]
  /\ loop_i' = [loop_i EXCEPT ![p] = @ + 1]
  /\ pc' = [pc EXCEPT ![p] = "embed"]
  /\ UNCHANGED << today, store, remaining, main_chunks, skipped, txn,
                  requests_today, issued, file_at_start, store_at_start, start_day,
                  used_loaded, started_exhausted >>
  /\ UNCHANGED << cleared, extracted, committed, embedded, deleted, searches >>
  /\ UNCHANGED << runs, cvars >>

\* lines 187-194 when print("OK") raises (standard output cannot be written):
\* the row is committed, the file charged and inserted incremented, and the
\* except clause rolls back an empty transaction and increments skipped as
\* well; the loop goes on
PrintOkRaises(p) ==
  /\ pc[p] = "save"
  /\ LET q == [quota[p] EXCEPT !.used = @ + 1]
     IN  /\ quota' = [quota EXCEPT ![p] = q]
         /\ quota_file' = save_quota(q)
         /\ exhausted_day' = IF quota_remaining(q) <= 0 THEN q.date ELSE exhausted_day
  /\ inserted' = [inserted EXCEPT ![p] = @ + 1]
  /\ skipped' = [skipped EXCEPT ![p] = @ + 1]
  /\ attempts' = [attempts EXCEPT ![p] =
                    Append(@, [chunk |-> main_chunks[p][loop_i[p]], result |-> "ok"])]
  /\ loop_i' = [loop_i EXCEPT ![p] = @ + 1]
  /\ pc' = [pc EXCEPT ![p] = "embed"]
  /\ UNCHANGED << today, store, remaining, main_chunks, txn,
                  requests_today, issued, file_at_start, store_at_start, start_day,
                  used_loaded, started_exhausted >>
  /\ UNCHANGED << cleared, extracted, committed, embedded, deleted, searches >>
  /\ UNCHANGED << runs, cvars >>

\* the except clause charging the quota for the failed attempt as well
AttemptFailsCharged(p) ==
  /\ pc[p] \in {"embed", "insert", "commit", "save"}
  /\ loop_i[p] <= Len(main_chunks[p])
  /\ requests_today' = IF pc[p] = "embed" THEN requests_today + 1 ELSE requests_today
  /\ issued' = [issued EXCEPT ![p] = IF pc[p] = "embed" THEN @ + 1 ELSE @]
  /\ quota' = [quota EXCEPT ![p].used = @ + 1]
  /\ quota_file' = save_quota([quota[p] EXCEPT !.used = @ + 1])
  /\ txn' = [txn EXCEPT ![p] = <<>>]
  /\ skipped' = [skipped EXCEPT ![p] = @ + 1]
  /\ attempts' = [attempts EXCEPT ![p] =
                    Append(@, [chunk |-> main_chunks[p][loop_i[p]], result |-> pc[p]])]
  /\ loop_i' = [loop_i EXCEPT ![p] = @ + 1]
  /\ pc' = [pc EXCEPT ![p] = "embed"]
  /\ UNCHANGED << today, store, remaining, main_chunks, inserted, file_at_start,
                  store_at_start, start_day, used_loaded, started_exhausted,
                  exhausted_day >>
  /\ UNCHANGED << cleared, extracted, committed, embedded, deleted, searches >>
  /\ UNCHANGED << runs, cvars >>

\* lines 191-194: one of get_embedding, cur.execute, conn.commit, save_quota
\* raises; conn.rollback(), skipped += 1, and the loop goes on.  A save_quota
\* that raises has incremented quota["used"] before, and leaves the file as it
\* was (open failed) or cut short (the write failed).  The fifth call of the
\* try block that can raise, print("OK"), is PrintOkRaises.
AttemptFails(p) ==
  /\ pc[p] \in {"embed", "insert", "commit", "save"}
  /\ loop_i[p] <= Len(main_chunks[p])
  /\ requests_today' = IF pc[p] = "embed" THEN requests_today + 1 ELSE requests_today
  /\ issued' = [issued EXCEPT ![p] = IF pc[p] = "embed" THEN @ + 1 ELSE @]
  /\ quota' = [quota EXCEPT ![p].used = IF pc[p] = "save" THEN @ + 1 ELSE @]
  /\ quota_file' \in IF pc[p] = "save" THEN {quota_file, Corrupt} ELSE {quota_file}
  /\ txn' = [txn EXCEPT ![p] = <<>>]
  /\ skipped' = [skipped EXCEPT ![p] = @ + 1]
  /\ attempts' = [attempts EXCEPT ![p] =
                    Append(@, [chunk |-> main_chunks[p][loop_i[p]], result |-> pc[p]])]
  /\ loop_i' = [loop_i EXCEPT ![p] = @ + 1]
  /\ pc' = [pc EXCEPT ![p] = "embed"]
  /\ UNCHANGED << today, store, remaining, main_chunks, inserted, file_at_start,
                  store_at_start, start_day, used_loaded, started_exhausted,
                  exhausted_day >>
  /\ UNCHANGED << cleared, extracted, committed, embedded, deleted, searches >>
  /\ UNCHANGED << runs, cvars >>

\* lines 191-194 when the except clause itself raises: conn.rollback() on a
\* connection that is gone (skipped is not incremented) or print() at line 194
\* (after skipped += 1).  The exception leaves main: the run is over and the
\* chunks after this one are not attempted.  The clause was entered as in
\* AttemptFails or, with printed, as in PrintOkRaises.
ExceptRaises(p) ==
  /\ pc[p] \in {"embed", "insert", "commit", "save"}
  /\ loop_i[p] <= Len(main_chunks[p])
  /\ requests_today' = IF pc[p] = "embed" THEN requests_today + 1 ELSE requests_today
  /\ issued' = [issued EXCEPT ![p] = IF pc[p] = "embed" THEN @ + 1 ELSE @]
  /\ \E printed \in (IF pc[p] = "save" THEN BOOLEAN ELSE {FALSE}) :
        LET q == [quota[p] EXCEPT !.used = IF pc[p] = "save" THEN @ + 1 ELSE @]
        IN  /\ quota' = [quota EXCEPT ![p] = q]
            /\ quota_file' \in IF printed THEN {save_quota(q)}
                                ELSE IF pc[p] = "save" THEN {quota_file, Corrupt}
                                ELSE {quota_file}
            /\ exhausted_day' = IF printed /\ quota_remaining(q) <= 0
                                   THEN q.date ELSE exhausted_day
            /\ inserted' = [inserted EXCEPT ![p] = IF printed THEN @ + 1 ELSE @]
            /\ attempts' = [attempts EXCEPT ![p] =
                              Append(@, [chunk |-> main_chunks[p][loop_i[p]],
                                         result |-> IF printed THEN "ok" ELSE pc[p]])]
  /\ \E counted \in BOOLEAN :
        skipped' = [skipped EXCEPT ![p] = IF counted THEN @ + 1 ELSE @]
  /\ txn' = [txn EXCEPT ![p] = <<>>]
  /\ pc' = [pc EXCEPT ![p] = "raised"]
  /\ UNCHANGED << today, store, remaining, main_chunks, loop_i, file_at_start,
                  store_at_start, start_day, used_loaded, started_exhausted >>
  /\ UNCHANGED << cleared, extracted, committed, embedded, deleted, searches >>
  /\ UNCHANGED << runs, cvars >>

\* lines 197-202: the loop is over
Finish(p) ==
  /\ pc[p] = "embed"
  /\ loop_i[p] > Len(main_chunks[p])
  /\ pc' = [pc EXCEPT ![p] = "done"]
  /\ UNCHANGED << today, quota_file, store, quota, remaining, main_chunks, loop_i,
                  inserted, skipped, txn, requests_today, issued, attempts,
                  file_at_start, store_at_start, start_day, used_loaded,
                  started_exhausted, exhausted_day >>
  /\ UNCHANGED << cleared, extracted, committed, embedded, deleted, searches >>
  /\ UNCHANGED << runs, cvars >>

\* the process ends inside a run: it is killed, or a call outside the try
\* block (connect, ensure_schema, DELETE, fitz.open, a print) raises.  The open
\* transaction, with its DELETE or INSERT, is lost with the connection.  Inside
\* get_embedding the request may have been sent; inside save_quota (lines
\* 46-47) open(.., "w") may have emptied the file and json.dump may have
\* written it, in part or whole.
Interrupt(p) ==
  /\ Running(p)
  /\ pc' = [pc EXCEPT ![p] = "killed"]
  /\ txn' = [txn EXCEPT ![p] = <<>>]
  /\ \E sent \in (IF pc[p] = "embed" /\ loop_i[p] <= Len(main_chunks[p])
                   THEN BOOLEAN ELSE {FALSE}) :
        /\ requests_today' = IF sent THEN requests_today + 1 ELSE requests_today
        /\ issued' = [issued EXCEPT ![p] = IF sent THEN @ + 1 ELSE @]
  /\ LET q == [quota[p] EXCEPT !.used = @ + 1]
     IN  /\ quota_file' \in IF pc[p] = "save"
                              THEN {quota_file, Corrupt, save_quota(q)}
                              ELSE {quota_file}
         /\ exhausted_day' = IF pc[p] = "save" /\ quota_file' = save_quota(q)
                                   /\ quota_remaining(q) <= 0
                                THEN q.date ELSE exhausted_day
  /\ UNCHANGED << today, store, quota, remaining, main_chunks, loop_i,
                  inserted, skipped, attempts,
                  file_at_start, store_at_start, start_day, used_loaded,
                  started_exhausted >>
  /\ deleted' = [deleted EXCEPT ![p] = 0]
  /\ UNCHANGED << cleared, extracted, committed, embedded, searches >>
  /\ UNCHANGED << runs, cvars >>

\* midnight, at any point, also during a run.  date.today() is read by
\* load_quota only, at the start of a run (line 38): a run under way keeps the
\* date it loaded, so what it saves after midnight is a file of the day
\* before, and the requests it issues after midnight are of the new day.
NewDay ==
  /\ today < MaxDay
  /\ today' = today + 1
  /\ requests_today' = 0
  /\ UNCHANGED << quota_file, store, pc, quota, remaining, main_chunks, loop_i, inserted,
                  skipped, txn, issued, attempts, file_at_start, store_at_start,
                  start_day, used_loaded, started_exhausted, exhausted_day >>
  /\ UNCHANGED << cleared, extracted, committed, embedded, deleted, searches >>
  /\ UNCHANGED << runs, cvars >>

\* test.py, lines 24-62: get_embedding(text), called by search_manuals(query)
\* or on its own, issues one embedding request with the same API key, and the
\* SELECT of search_manuals reads the table; .gemini_quota.json is neither
\* read nor written
Search ==
  /\ searches < MaxSearches
  /\ searches' = searches + 1
  /\ requests_today' = requests_today + 1
  /\ UNCHANGED << today, quota_file, store, pc, quota, remaining, main_chunks, loop_i,
                  inserted, skipped, txn, issued, attempts, file_at_start,
                  store_at_start, start_day, used_loaded, started_exhausted,
                  exhausted_day >>
  /\ UNCHANGED << cleared, extracted, committed, embedded, deleted >>
  /\ UNCHANGED << runs, cvars >>

\* a run starts; at most MaxRuns runs in a behaviour
StartRun(p) ==
  /\ runs < MaxRuns
  /\ Start(p)
  /\ runs' = runs + 1

RunStep(p) ==
  \/ StartRun(p) \/ DeleteRows(p) \/ ClearStore(p) \/ Extract(p)
  \/ EmbedOk(p) \/ InsertOk(p) \/ CommitOk(p) \/ SaveOk(p) \/ PrintOkRaises(p)
  \/ AttemptFails(p) \/ ExceptRaises(p) \/ Finish(p) \/ Interrupt(p)

\* the chunker has returned; main does not look inside it
ChunkIdle ==
  ChunkInit /\ start_page = 0 /\ end_page = 0

Init == ChunkIdle /\ MainInit

\* one process, so one run at a time; at most MaxRuns runs over MaxDay days
Next == RunStep("A") \/ NewDay

Spec == Init /\ [][Next]_vars

\* a run starts, whatever was requested on the date so far; at most
\* MaxDayRuns runs in a behaviour
StartDay(p) ==
  /\ runs < MaxDayRuns
  /\ Start(p)
  /\ runs' = runs + 1

\* one calendar date, already under way: every request issued so far today
\* returned, was stored and was charged, and 1 or 2 are left below the cap
InitDay ==
  /\ ChunkIdle
  /\ MainInit
  /\ quota_file \in { JsonFile([date |-> 1, used |-> u]) : u \in {Cap - 2, Cap - 1} }

NextDay ==
  \/ StartDay("A") \/ DeleteRows("A") \/ ClearStore("A") \/ Extract("A")
  \/ EmbedOk("A") \/ InsertOk("A") \/ CommitOk("A") \/ SaveOk("A")
  \/ PrintOkRaises("A") \/ AttemptFails("A") \/ ExceptRaises("A") \/ Finish("A")
  \/ Interrupt("A") \/ Search

\* up to MaxDayRuns runs, one after the other, on one date, and the searches
\* of the retrieval side in between
SpecDay == InitDay /\ [][NextDay]_vars

\* the steps of a started run when every external call returns or raises
Proceed(p) ==
  \/ DeleteRows(p) \/ ClearStore(p) \/ Extract(p) \/ EmbedOk(p)
  \/ InsertOk(p) \/ CommitOk(p) \/ SaveOk(p) \/ PrintOkRaises(p)
  \/ AttemptFails(p) \/ ExceptRaises(p) \/ Finish(p)

InitLive == ChunkIdle /\ MainInit

NextLive ==
  \/ StartRun("A") \/ DeleteRows("A") \/ ClearStore("A") \/ Extract("A")
  \/ EmbedOk("A") \/ InsertOk("A") \/ CommitOk("A") \/ SaveOk("A")
  \/ PrintOkRaises("A") \/ AttemptFails("A") \/ ExceptRaises("A") \/ Finish("A")

\* runs that are not interrupted: main is sequential code, so a started run
\* takes its next step as soon as the call it waits for has returned or raised
SpecLive == InitLive /\ [][NextLive]_vars /\ WF_vars(Proceed("A"))

\* a process starts its one run
StartOnce(p) ==
  /\ pc[p] = "idle"
  /\ Start(p)
  /\ UNCHANGED runs

\* a process starts while the other one is inside save_quota: open(.., "w")
\* has emptied the file and json.dump has not written it yet, so json.load
\* raises and main ends with the exception
StartDuringWrite(p) ==
  /\ pc[p] = "idle"
  /\ \E q \in Procs \ {p} : pc[q] = "save"
  /\ pc' = [pc EXCEPT ![p] = "crashed"]
  /\ file_at_start' = [file_at_start EXCEPT ![p] = Corrupt]
  /\ store_at_start' = [store_at_start EXCEPT ![p] = <<>>]
  /\ start_day' = [start_day EXCEPT ![p] = today]
  /\ quota' = [quota EXCEPT ![p] = [date |-> today, used |-> 0]]
  /\ UNCHANGED << today, quota_file, store, remaining, main_chunks, loop_i, inserted,
                  skipped, txn, requests_today, issued, attempts, used_loaded,
                  started_exhausted, exhausted_day >>
  /\ UNCHANGED << cleared, extracted, committed, embedded, deleted, searches >>
  /\ UNCHANGED << runs, cvars >>

ConcStep(p) ==
  \/ StartOnce(p) \/ StartDuringWrite(p) \/ DeleteRows(p) \/ ClearStore(p)
  \/ Extract(p) \/ EmbedOk(p) \/ InsertOk(p) \/ CommitOk(p) \/ SaveOk(p)
  \/ PrintOkRaises(p) \/ AttemptFails(p) \/ ExceptRaises(p) \/ Finish(p)

\* both invocations on a date under way, with 1 or 2 requests below the cap
InitConc ==
  /\ ChunkIdle
  /\ MainInit
  /\ quota_file \in { JsonFile([date |-> 1, used |-> u]) : u \in {Cap - 2, Cap - 1} }

\* two invocations of the script, each one run of main, with nothing that
\* orders their steps: the quota file and the store are shared, the locals
\* and the connection with its transaction are the process's own
NextConc == ConcStep("A") \/ ConcStep("B")

SpecConc == InitConc /\ [][NextConc]_vars

\* the chunker alone
InitChunk == ChunkInit /\ MainInit /\ quota_file = NoFile

SpecChunk == InitChunk /\ [][ChunkNext]_vars

(***************************************************************************)
(* Properties of the chunker.                                              *)
(***************************************************************************)
HasKeyword(text) ==
  \E lower_text \in {lower(text)} :
     \E k \in IMPORTANT_KEYWORDS : contains(lower_text, k)

\* the flush calls that appended a chunk
Emitted == { j \in 1..Len(flush_log) : flush_log[j].chunk_index > 0 }

\* the words of lines ls[lo..hi], in order
RECURSIVE LineWords(_, _, _)
LineWords(ls, lo, hi) ==
  IF lo > hi THEN <<>>
  ELSE IF lo = hi THEN split(ls[lo].line)
  ELSE LET mid == (lo + hi) \div 2
       IN  LineWords(ls, lo, mid) \o LineWords(ls, mid + 1, hi)

\* C1: every chunk in the returned list has at least MIN_CHUNK_LENGTH
\* characters and contains one of IMPORTANT_KEYWORDS, case-insensitively; a
\* flush candidate failing either test is not in the output.
C1_ChunksAreFiltered ==
  /\ \A i \in 1..Len(chunks) :
        /\ Len(chunks[i].content) >= MIN_CHUNK_LENGTH
        /\ HasKeyword(chunks[i].content)
  /\ \A j \in 1..Len(flush_log) :
        LET text == join(flush_log[j].words)
        IN  (Len(text) < MIN_CHUNK_LENGTH \/ ~HasKeyword(text))
               => flush_log[j].chunk_index = 0

\* a finished extraction that emitted a chunk, dropped a candidate that was
\* too short and dropped one that was long enough but had no keyword
C1_Witness ==
  /\ cpc = "returned"
  /\ Len(chunks) >= 1
  /\ \E j \in 1..Len(flush_log) :
        /\ flush_log[j].chunk_index = 0
        /\ flush_log[j].words # <<>>
        /\ Len(join(flush_log[j].words)) < MIN_CHUNK_LENGTH
  /\ \E j \in 1..Len(flush_log) :
        /\ flush_log[j].chunk_index = 0
        /\ Len(join(flush_log[j].words)) >= MIN_CHUNK_LENGTH

\* C2: page_start and page_end of every chunk are the smallest and the largest
\* page number of the lines whose words make up its content, page_start <=
\* page_end, and both lie in start_page+1 .. end_page.
C2_PageRange ==
  /\ \A i \in 1..Len(chunks) : \E j \in Emitted : flush_log[j].chunk_index = i
  /\ \A j \in Emitted :
        LET c  == chunks[flush_log[j].chunk_index]
            ls == flush_log[j].lines
            pg == { ls[k].page : k \in 1..Len(ls) }
        IN  /\ ls # <<>>
            /\ c.content = join(LineWords(ls, 1, Len(ls)))
            /\ c.page_start = Min(pg)
            /\ c.page_end = Max(pg)
            /\ c.page_start <= c.page_end
            /\ c.page_start \in (start_page + 1)..end_page
            /\ c.page_end \in (start_page + 1)..end_page

\* a finished extraction of pages START_PAGE+1.. with a chunk spanning two pages
C2_Witness ==
  /\ cpc = "returned"
  /\ start_page = START_PAGE
  /\ \E i \in 1..Len(chunks) : chunks[i].page_start < chunks[i].page_end

\* C3: no emitted chunk has more than MAX_WORDS_PER_CHUNK words, whatever the
\* length of the lines.
C3_NoChunkOverMaxWords ==
  \A i \in 1..Len(chunks) : Len(split(chunks[i].content)) <= MAX_WORDS_PER_CHUNK

\* C8: the section of every chunk is the most recent heading line seen up to
\* the chunk's first content line (Unknown Section when there is none); a
\* flush triggered by a heading is tagged with the section before that heading.
C8_SectionIsLastHeading ==
  \A j \in Emitted :
     LET c == chunks[flush_log[j].chunk_index]
     IN  /\ c.section = flush_log[j].lines[1].section
         /\ flush_log[j].trigger = "heading" => c.section = flush_log[j].heading_before

\* page 1 ends inside a section, page 2 goes on without a heading, and the
\* chunk then flushed by a later heading carries the heading of page 1
C8_Witness ==
  \E j \in Emitted :
     LET c  == chunks[flush_log[j].chunk_index]
         ls == flush_log[j].lines
     IN  /\ flush_log[j].trigger = "heading"
         /\ c.section # UNKNOWN_SECTION
         /\ c.page_start < c.page_end
         /\ ls[1].heading
         /\ \A k \in 2..Len(ls) : ~ls[k].heading
         /\ last_heading # c.section

\* C9: the words of a heading line are never appended to the accumulator, so
\* no chunk's content holds them.
C9_HeadingWordsNotAppended ==
  /\ \A k \in 1..Len(acc_lines) : ~acc_lines[k].heading
  /\ \A j \in Emitted : \A k \in 1..Len(flush_log[j].lines) : ~flush_log[j].lines[k].heading

(***************************************************************************)
(* Properties of main and the quota file.                                  *)
(***************************************************************************)
\* the attempts of the run of p that ended in the except clause
FailedAttempts(p) ==
  { k \in 1..Len(attempts[p]) : attempts[p][k].result # "ok" }

\* the attempts of the run of p whose row was committed
CommittedAttempts(p) ==
  { k \in 1..Len(attempts[p]) : attempts[p][k].result \in {"ok", "save"} }

\* C4: whatever attempts fail, the run goes on: no failure of an attempt ends
\* the run, when it is done every chunk to process has been attempted, in
\* order, and skipped is the number of failed attempts; inside the loop the
\* same holds of the chunks before the current one.
C4_FailureNeverStopsRun ==
  \A p \in Procs :
     /\ pc[p] # "raised"
     /\ pc[p] \in {"embed", "insert", "commit", "save"} \/ (pc[p] = "done" /\ remaining[p] > 0)
          => /\ \A k \in 1..Len(attempts[p]) : attempts[p][k].chunk = main_chunks[p][k]
             /\ skipped[p] = Cardinality(FailedAttempts(p))
     /\ pc[p] \in {"embed", "insert", "commit", "save"}
          => Len(attempts[p]) = loop_i[p] - 1
     /\ pc[p] = "done" /\ remaining[p] > 0
          => Len(attempts[p]) = Len(main_chunks[p])

\* C5: a run that finds remaining <= 0 is over at once: the store keeps its
\* rows, no embedding is requested, nothing is inserted and the quota file is
\* as it was.
C5_ExhaustedRunDoesNothing ==
  \A p \in Procs :
     (pc[p] \notin {"idle", "crashed"} /\ remaining[p] <= 0)
        => /\ pc[p] \in {"done", "killed"}
           /\ store = store_at_start[p]
           /\ quota_file = file_at_start[p]
           /\ issued[p] = 0
           /\ inserted[p] = 0
           /\ attempts[p] = <<>>

\* a run stopped at the gate with rows of an earlier run in the store
C5_Witness ==
  /\ pc["A"] = "done"
  /\ remaining["A"] <= 0
  /\ store # <<>>
  /\ quota_file.kind = "json"

\* C6: remaining is (DAILY_QUOTA - QUOTA_SAFETY_BUFFER) - used; a run that
\* starts with remaining = r > 0 issues at most r embedding requests; a run
\* started on a date for which a use bringing remaining to 0 was saved issues
\* none.
C6_QuotaBoundsRequests ==
  \A p \in Procs :
     pc[p] \notin {"idle", "crashed"}
        => /\ remaining[p] = (DAILY_QUOTA - QUOTA_SAFETY_BUFFER) - used_loaded[p]
           /\ remaining[p] > 0 => issued[p] <= remaining[p]
           /\ used_loaded[p] = DAILY_QUOTA - QUOTA_SAFETY_BUFFER - 1
                => (remaining[p] = 1 /\ issued[p] <= 1)
           /\ started_exhausted[p] => issued[p] = 0

\* the run after the one that used the last request of the date: the row of
\* that run is in the store, the file holds the cap, and nothing was requested
C6_Witness ==
  /\ pc["A"] = "done"
  /\ runs = 2
  /\ started_exhausted["A"]
  /\ issued["A"] = 0
  /\ store = <<1>>
  /\ quota_file = JsonFile([date |-> today, used |-> Cap])

StaleAtStart(p) ==
  \/ file_at_start[p].kind = "absent"
  \/ file_at_start[p].kind = "json" /\ file_at_start[p].date # start_day[p]

\* C7: load_quota returns {date: today, used: 0} when there is no file or the
\* stored date is not today, and the stored state when its date is today; what
\* the run then saves counts the uses of the run only.
C7_StaleQuotaIsReset ==
  \A p \in Procs :
     pc[p] \notin {"idle", "crashed"}
        => /\ quota[p].date = start_day[p]
           /\ StaleAtStart(p) => used_loaded[p] = 0
           /\ ~StaleAtStart(p) => used_loaded[p] = file_at_start[p].used
           /\ quota[p].used <= used_loaded[p] + Len(attempts[p]) + 1
           /\ (StaleAtStart(p) /\ quota_file.kind = "json" /\ quota_file # file_at_start[p])
                => /\ quota_file.date = start_day[p]
                   /\ quota_file.used <= Len(committed[p])

\* the first save of a day that began with a file of another date and a
\* count above zero
C7_Witness ==
  /\ file_at_start["A"].kind = "json"
  /\ file_at_start["A"].date # start_day["A"]
  /\ file_at_start["A"].used > 0
  /\ quota_file = JsonFile([date |-> start_day["A"], used |-> 1])

\* C10: the embedding requests issued on one date never exceed DAILY_QUOTA.
C10_RequestsWithinDailyQuota == requests_today <= DAILY_QUOTA

\* the chunks of the run of p whose commit has returned, as the attempts and
\* the position in the loop tell them
CommittedChunks(p) ==
  { attempts[p][k].chunk : k \in CommittedAttempts(p) } \cup
  (IF pc[p] = "save" THEN { main_chunks[p][loop_i[p]] } ELSE {})

\* C11: from the clear step of a run on, also after the run was interrupted,
\* the store holds exactly the chunks whose commit returned in this run, in
\* extraction order: no row of an earlier run, no rolled-back chunk, and the
\* rows committed before a failed attempt are still there.
C11_StoreHoldsCommittedRows ==
  \A p \in Procs :
     cleared[p] =>
        /\ store = committed[p]
        /\ \A j \in 1..Len(store) : \A k \in 1..Len(store) :
              j < k => store[j] < store[k]
        /\ \A k \in 1..Len(store) :
              \E m \in 1..Len(main_chunks[p]) : store[k] = main_chunks[p][m]
        /\ \A k \in FailedAttempts(p) :
              attempts[p][k].result # "save"
                 => \A m \in 1..Len(store) : store[m] # attempts[p][k].chunk
        /\ pc[p] # "killed" => SeqRange(store) = CommittedChunks(p)

\* a run that found a row of an earlier run, rolled its first chunk back,
\* committed its second and was interrupted before the quota was saved
C11_Witness ==
  /\ pc["A"] = "killed"
  /\ cleared["A"]
  /\ runs = 1                \* the run found the row of Init and deleted it
  /\ Len(attempts["A"]) = 1
  /\ attempts["A"][1].result = "commit"
  /\ store = <<2>>

\* the chunks of the finished attempts of the run of p, in the order attempted
Attempted(p) == [k \in 1..Len(attempts[p]) |-> attempts[p][k].chunk]

\* C12: with n chunks extracted and remaining quota r, the chunks attempted
\* in the run are the first r extracted chunks when n > r and all n chunks
\* when n <= r, in extraction order and each once: at every point, however
\* the run ends, the attempts made are the leading ones of these chunks, and
\* a run that returns has made them all.
C12_FirstChunksAttempted ==
  \A p \in Procs :
     LET n == Len(extracted[p])
         r == remaining[p]
         m == IF n > r THEN r ELSE n
     IN  /\ pc[p] \in {"embed", "insert", "commit", "save"}
              => /\ Len(main_chunks[p]) = m
                 /\ Attempted(p) = SubSeq(extracted[p], 1, loop_i[p] - 1)
                 /\ loop_i[p] - 1 <= m
         /\ (pc[p] \in {"done", "killed", "raised"} /\ cleared[p])
              => /\ Len(attempts[p]) <= m
                 /\ Attempted(p) = SubSeq(extracted[p], 1, Len(attempts[p]))
         /\ (pc[p] = "done" /\ cleared[p])
              => Attempted(p) = SubSeq(extracted[p], 1, m)

\* a finished run that extracted two chunks with one request remaining and
\* attempted the first chunk only
C12_Witness ==
  /\ pc["A"] = "done"
  /\ Len(extracted["A"]) = 2
  /\ remaining["A"] = 1
  /\ Attempted("A") = <<1>>

\* the finished attempts of the run of p whose chunk has a row in the store
StoredAttempts(p) ==
  { k \in 1..Len(attempts[p]) : \E m \in 1..Len(store) : store[m] = attempts[p][k].chunk }

\* C13: between two attempts of a run every attempted chunk is Persisted (row
\* stored, quota charged by one, counted in inserted) or Failed (no row, no
\* charge, counted in skipped), whichever of the embedding request, the
\* insert, the commit or the quota write failed.
C13_PersistedOrFailed ==
  \A p \in Procs :
     (cleared[p] /\ pc[p] \in {"embed", "done"})
        => /\ \A k \in 1..Len(attempts[p]) :
                 k \in StoredAttempts(p) <=> attempts[p][k].result = "ok"
           /\ inserted[p] = Cardinality(StoredAttempts(p))
           /\ skipped[p] = Len(attempts[p]) - Cardinality(StoredAttempts(p))
           /\ quota[p].used - used_loaded[p] = Cardinality(StoredAttempts(p))

\* the used count a run of p's date would load from the quota file
PersistedUsed(p) == load_quota(quota_file, start_day[p]).used

\* C14: at every point of a run the persisted used count exceeds the count
\* loaded at the start of the run by at most the number of embedding
\* requests that have returned in the run.
C14_LedgerNeverOvercounts ==
  \A p \in Procs :
     (pc[p] \notin {"idle", "crashed"} /\ quota_file.kind # "corrupt")
        => PersistedUsed(p) - used_loaded[p] <= embedded[p]

\* a finished run with two embeddings returned and one of them charged
C14_Witness ==
  /\ pc["A"] = "done"
  /\ embedded["A"] = 2
  /\ quota_file.kind = "json"
  /\ PersistedUsed("A") - used_loaded["A"] = 1
  /\ used_loaded["A"] > 0

\* C15: the quota is persisted after every embedding request that returned,
\* so at every point of a run the requests returned exceed the persisted
\* increase of used by at most one.
C15_AtMostOneUnaccounted ==
  \A p \in Procs :
     (pc[p] \notin {"idle", "crashed"} /\ quota_file.kind # "corrupt")
        => embedded[p] - (PersistedUsed(p) - used_loaded[p]) <= 1

\* the attempts of the run of p are its chunks up to the current one, each
\* once, and a finished run has attempted them all and counted each attempt
AttemptedOnce(p) ==
  /\ pc[p] \in {"embed", "insert", "commit", "save"}
       => Attempted(p) = SubSeq(main_chunks[p], 1, loop_i[p] - 1)
  /\ (pc[p] = "done" /\ cleared[p])
       => /\ Attempted(p) = main_chunks[p]
          /\ inserted[p] + skipped[p] = Len(attempts[p])

\* C16: when every external call returns or raises, every run eventually
\* finishes; each chunk to process is attempted exactly once, with no retry,
\* and at the end inserted + skipped is the number of chunks attempted.
C16_EveryRunFinishes ==
  /\ [](\A p \in Procs : AttemptedOnce(p))
  /\ \A p \in Procs : Running(p) ~> (pc[p] = "done")

\* the attempts of the run of p that ended with save_quota raising
SaveFailures(p) ==
  Cardinality({ k \in 1..Len(attempts[p]) : attempts[p][k].result = "save" })

\* C17: nothing orders two overlapping runs.  Each save writes the saving
\* run's own count (what it loaded plus its own uses) over whatever the file
\* holds, so the file never adds up the charges of the two runs, and each
\* clear removes every row committed before its DELETE was executed, the
\* other run's rows included, so the store holds no more than rows the two
\* runs committed.
C17_NoRunProtection ==
  /\ (quota_file.kind = "json" /\ \E p \in Procs : inserted[p] >= 1)
       => \E p \in Procs :
             /\ inserted[p] >= 1
             /\ quota_file.date = start_day[p]
             /\ quota_file.used - used_loaded[p] >= inserted[p]
             /\ quota_file.used - used_loaded[p] <= inserted[p] + SaveFailures(p)
  /\ (\E p \in Procs : cleared[p])
       => /\ Len(store) <= Len(committed["A"]) + Len(committed["B"])
          /\ \A k \in 1..Len(store) :
                store[k] \in SeqRange(committed["A"]) \cup SeqRange(committed["B"])

\* two finished runs that loaded the same count: each cleared the store,
\* each embedded and charged the first chunk, the file holds fewer uses than
\* the two charged (a lost update) and the store fewer rows than the two
\* committed (a clear deleted a committed row)
C17_Witness ==
  /\ pc["A"] = "done" /\ pc["B"] = "done"
  /\ cleared["A"] /\ cleared["B"]
  /\ used_loaded["A"] = used_loaded["B"]
  /\ inserted["A"] >= 1 /\ inserted["B"] >= 1
  /\ attempts["A"][1].chunk = attempts["B"][1].chunk
  /\ attempts["A"][1].result = "ok" /\ attempts["B"][1].result = "ok"
  /\ quota_file.kind = "json"
  /\ quota_file.used < used_loaded["A"] + inserted["A"] + inserted["B"]
  /\ Len(store) < Len(committed["A"]) + Len(committed["B"])

(***************************************************************************)
(* Properties of clean_text and of the accumulator of the chunker.         *)
(***************************************************************************)
\* the lines of text with a character that is not whitespace
NonBlankLines(text) ==
  SelectSeq(split_lines(text), LAMBDA l : strip(l) # <<>>)

\* C18: clean_text keeps a single newline between two non-blank lines also
\* when spaces or tabs are next to it: the cleaned page has as many non-blank
\* lines as the page had once its NUL characters and dot leaders were
\* replaced, so no two of them are merged.
C18_LinesNeverMerged ==
  Len(NonBlankLines(clean_text(raw))) = Len(NonBlankLines(SubDots(RemoveNul(raw))))

\* C19: after every processed line the pending words are empty exactly when
\* the pending pages are, and the extraction never raises: a flush takes
\* min and max of a page list that is not empty, the flush the word limit
\* triggers on an empty accumulator emits nothing, and a heading arriving
\* with nothing pending triggers no flush.
C19_WordsAndPagesEmptyTogether ==
  /\ (current_words = <<>>) <=> (current_pages = <<>>)
  /\ cpc # "raised"
  /\ \A j \in 1..Len(flush_log) :
        /\ flush_log[j].words = <<>>
             => (flush_log[j].trigger = "limit" /\ flush_log[j].chunk_index = 0)
        /\ (flush_log[j].words = <<>>) <=> (flush_log[j].lines = <<>>)

\* a finished extraction whose first line was a heading of
\* MAX_WORDS_PER_CHUNK words: it arrived with nothing pending, and the word
\* limit then flushed the empty accumulator
C19_Witness ==
  /\ cpc = "returned"
  /\ Len(flush_log) >= 2
  /\ flush_log[1].trigger = "limit"
  /\ flush_log[1].words = <<>>
  /\ flush_log[2].lines[1].heading
  /\ Len(chunks) >= 1

\* the words of the flush candidates log[lo..hi], in flush order
RECURSIVE CandidateWords(_, _, _)
CandidateWords(log, lo, hi) ==
  IF lo > hi THEN <<>>
  ELSE IF lo = hi THEN log[lo].words
  ELSE LET mid == (lo + hi) \div 2
       IN  CandidateWords(log, lo, mid) \o CandidateWords(log, mid + 1, hi)

\* the words appended to the accumulator and not flushed yet
PendingWords ==
  IF cpc = "returned" THEN <<>> ELSE current_words

\* C20: the flush candidates, emitted and dropped, concatenated in flush
\* order and followed by the pending words are all the words appended to the
\* accumulator, in input order; every emitted chunk is the span of that
\* sequence its candidate covers, and the chunks come in the order of their
\* spans.
C20_FlushesPartitionWords ==
  /\ CandidateWords(flush_log, 1, Len(flush_log)) \o PendingWords = all_words
  /\ \A j \in Emitted :
        LET off == Len(CandidateWords(flush_log, 1, j - 1))
            n   == Len(flush_log[j].words)
        IN  /\ off + n <= Len(all_words)
            /\ chunks[flush_log[j].chunk_index].content
                  = join(SubSeq(all_words, off + 1, off + n))
  /\ \A j \in Emitted : \A k \in Emitted :
        j < k => flush_log[j].chunk_index < flush_log[k].chunk_index
  /\ Cardinality(Emitted) = Len(chunks)

\* a finished extraction with two chunks emitted and, between them, a
\* candidate that was dropped
C20_Witness ==
  /\ cpc = "returned"
  /\ Len(chunks) = 2
  /\ \E j \in Emitted : \E d \in 1..Len(flush_log) : \E k \in Emitted :
        /\ j < d /\ d < k
        /\ flush_log[d].chunk_index = 0
        /\ flush_log[d].words # <<>>
====
